---- MODULE Spec2Model ----
(***************************************************************************)
(* Model of the fc-agent (internal/agent/agent.go): the HTTP control plane *)
(* that owns the registry of Firecracker microVM records, the per-record   *)
(* process supervisor (spawn / stop / exit waiter), the create and delete  *)
(* flows, lookup by identifier, name or prefix, and the legacy singleton.  *)
(*                                                                         *)
(* Strings are sequences of one-character strings so that formatting       *)
(* (fmt.Sprintf) and strings.HasPrefix are computed, not assumed.          *)
(***************************************************************************)
EXTENDS Integers, Sequences, FiniteSets, TLC

\* ---------------------------------------------------------------- bounds
NTasks == 2          \* concurrent HTTP handler tasks
MaxCreates == 2      \* bound on idCounter (identifiers handed out)
MaxObjs == 2         \* bound on MicroVM objects ever allocated
MaxProcs == 2        \* bound on Firecracker subprocesses ever exec'ed
MaxCap == 2          \* bound on the configured Config.MaxMicroVMs
BaseSecs == 5        \* time.Now().Unix() at agent start
MaxTicks == 1        \* bound on clock advances
MaxSessions == 2     \* bound on console sessions ever opened
MaxOut == 1          \* bound on unread chunks in a subprocess's stdout pipe

Tasks == 1..NTasks
Objs == 1..MaxObjs
Pids == 1..MaxProcs
Sessions == 1..MaxSessions
NoVM == 0            \* nil *MicroVM
NoCmd == -1          \* vm.fcProcess == nil
NoProcess == 0       \* vm.fcProcess != nil but fcProcess.Process == nil
ShutdownHolder == -1 \* the shutdown goroutine as holder of Agent.vmMu

\* --------------------------------------------------------------- strings
Digit(n) == <<"0", "1", "2", "3", "4", "5", "6", "7", "8", "9">>[n + 1]

RECURSIVE Dec(_)
\* fmt's %d for a non-negative integer
Dec(n) == IF n < 10 THEN <<Digit(n)>> ELSE Dec(n \div 10) \o <<Digit(n % 10)>>

\* strings.HasPrefix(s, p)
HasPrefix(s, p) == Len(p) <= Len(s) /\ SubSeq(s, 1, Len(p)) = p

\* an identifier made of the second alone
FormatIDSecondsOnly(secs, counter) == <<"v", "m", "-">> \o Dec(secs)

\* fmt.Sprintf("vm-%d-%d", time.Now().Unix(), counter)
FormatID(secs, counter) == <<"v", "m", "-">> \o Dec(secs) \o <<"-">> \o Dec(counter)

\* fmt.Sprintf("microvm-%d", counter)
AutoName(counter) == <<"m", "i", "c", "r", "o", "v", "m", "-">> \o Dec(counter)

\* one socket path for every record
SocketPathShared(id) == <<"/tmp/firecracker-">> \o <<".socket">>

\* fmt.Sprintf("/tmp/firecracker-%s.socket", id)
SocketPathFor(id) == <<"/tmp/firecracker-">> \o id \o <<".socket">>

\* Config.SocketPath default set by New
LegacySocketPath == <<"/tmp/firecracker.socket">>
LegacyID == <<"l", "e", "g", "a", "c", "y">>
LegacyName == <<"d", "e", "f", "a", "u", "l", "t">>

EmptyStr == <<>>
NameWeb == <<"w", "e", "b">>
NameVm == <<"v", "m">>
\* a client-chosen name that reads like the first identifier of the agent
NameIdLike == FormatID(BaseSecs, 1)

\* names a create request may carry (EmptyStr = no name given)
ReqNames == {EmptyStr, NameWeb, NameVm, NameIdLike}

\* paths and boot arguments are opaque: one-element sequences
KernelPath == <<"/images/vmlinux">>
RootfsPath == <<"/images/rootfs.ext4">>
QuietBootArgs == <<"console=ttyS0 quiet">>
\* the default of createMicroVM for an empty boot_args
DefaultBootArgs == <<"console=ttyS0 reboot=k panic=1 pci=off">>

\* var req CreateMicroVMRequest: the zero value, also what a body that
\* does not decode leaves behind (json = FALSE)
EmptyBody == [json |-> FALSE, Name |-> EmptyStr, Kernel |-> EmptyStr,
              Rootfs |-> EmptyStr, VCPUs |-> 0, MemoryMiB |-> 0,
              BootArgs |-> EmptyStr]

\* a body that decodes into a CreateMicroVMRequest
Body(name, kernel, rootfs, vcpus, mem, args) ==
    [json |-> TRUE, Name |-> name, Kernel |-> kernel, Rootfs |-> rootfs,
     VCPUs |-> vcpus, MemoryMiB |-> mem, BootArgs |-> args]

\* a validation that does not look at rootfs
ValidateKernelOnly(body) ==
    IF ~body.json THEN 400
    ELSE IF body.Kernel = EmptyStr THEN 400
    ELSE 0

\* the status the decode and the required-field checks answer, 0 when the
\* request passes
Validate(body) ==
    IF ~body.json THEN 400
    ELSE IF body.Kernel = EmptyStr THEN 400
    ELSE IF body.Rootfs = EmptyStr THEN 400
    ELSE 0

\* a create that stores the request as it arrived
WithoutDefaults(body) == body

\* "Set defaults": vcpus 1, memory_mib 128, the default boot arguments
WithDefaults(body) ==
    [body EXCEPT !.VCPUs = IF @ = 0 THEN 1 ELSE @,
                 !.MemoryMiB = IF @ = 0 THEN 128 ELSE @,
                 !.BootArgs = IF @ = EmptyStr THEN DefaultBootArgs ELSE @]

\* vm.Config == nil
NoConfig == [nil |-> TRUE, VCPUs |-> 0, MemoryMiB |-> 0, Kernel |-> EmptyStr,
             Rootfs |-> EmptyStr, BootArgs |-> EmptyStr]

\* &MicroVMConfig{...} built from the request
ConfigOf(req) == [nil |-> FALSE, VCPUs |-> req.VCPUs, MemoryMiB |-> req.MemoryMiB,
                  Kernel |-> req.Kernel, Rootfs |-> req.Rootfs,
                  BootArgs |-> req.BootArgs]

\* requests with a name, with or without a kernel, all else left to the
\* defaults
BasicBodies(names) ==
    {Body(n, k, RootfsPath, 0, 0, EmptyStr) : n \in names, k \in {EmptyStr, KernelPath}}

\* named requests with kernel and rootfs
NamedBodies(names) == {Body(n, KernelPath, RootfsPath, 0, 0, EmptyStr) : n \in names}

\* requests with kernel and rootfs that differ in what they leave to the
\* defaults
ValidBodies(names) ==
    {Body(n, KernelPath, RootfsPath, 2, 0, QuietBootArgs) : n \in names}
    \cup {Body(n, KernelPath, RootfsPath, 0, 256, EmptyStr) : n \in names}

\* requests without kernel or rootfs, and a body that does not decode
InvalidBodies(names) ==
    {EmptyBody}
    \cup {Body(n, EmptyStr, RootfsPath, 2, 0, EmptyStr) : n \in names}
    \cup {Body(n, KernelPath, EmptyStr, 0, 256, EmptyStr) : n \in names}
    \cup {Body(n, EmptyStr, EmptyStr, 0, 0, EmptyStr) : n \in names}

\* ----------------------------------------------------------------- state
VARIABLES
    vm,          \* heap of MicroVM objects: Objs -> record
    nextObj,     \* number of MicroVM objects allocated so far
    microVMs,    \* Agent.microVMs: the registry (objects keyed by their ID)
    legacyVM,    \* Agent.legacyVM: NoVM or an object
    MaxMicroVMs, \* Config.MaxMicroVMs
    fcBinary,    \* the file Config.FirecrackerBin exists
    clients,     \* "concurrent", or "sequential": one request at a time
    idCounter,   \* Agent.idCounter
    now,         \* time.Now().Unix()
    mu,          \* MicroVM.mu of each object: 0 = free, else the holding task
    vmMuW,       \* Agent.vmMu: the task holding the write lock, 0 = none,
                 \* ShutdownHolder = the shutdown goroutine
    vmMuR,       \* Agent.vmMu: the tasks holding a read lock
    sockFiles,   \* socket paths that exist on disk
    proc,        \* Firecracker subprocesses: "none", "alive", "exited" (on
                 \* its own or killed from outside) or "killed" (by the agent)
    procVM,      \* the object each subprocess was launched for
    nextPid,     \* number of subprocesses exec'ed so far
    waiter,      \* exit-monitor goroutine of each subprocess
    task,        \* the HTTP handler tasks
    reply,       \* the response the last step sent, NoReply after any other step
    createResp,  \* history: how the create of each object was answered
    deletedOK,   \* history: objects whose DELETE returned success
    reqOf,       \* history: the request body each record was built from
    lastList,    \* history: the last list answer since the registry changed
    sess,        \* console sessions: connection, client and the two copy loops
    nextSess,    \* number of console sessions opened so far
    stdout,      \* unread chunks in the stdout pipe of each subprocess, each
                 \* stamped with the sessions that had ended when it was written
    stolen,      \* history: sessions that consumed output after they had ended
    listener,    \* the HTTP listening socket: "open" or "closed"
    shut,        \* the shutdown goroutine of Run
    shutTodo,    \* records stopAllMicroVMs has still to visit
    exited       \* Run returned and the agent process exited

\* console sessions and pipes
conVars == <<sess, nextSess, stdout, stolen>>
\* signal handling and shutdown
shutVars == <<listener, shut, shutTodo, exited>>

vars == <<vm, nextObj, microVMs, legacyVM, MaxMicroVMs, fcBinary, reqOf, clients,
          idCounter, now, mu, vmMuW, vmMuR,
          sockFiles, proc, procVM, nextPid, waiter, task, reply, createResp,
          deletedOK, lastList, conVars, shutVars>>

\* a MicroVM object that was not allocated yet
FreeVM == [alloc |-> FALSE, ID |-> EmptyStr, Name |-> EmptyStr,
           SocketPath |-> EmptyStr, started |-> FALSE, fcProcess |-> NoCmd,
           console |-> FALSE, proxy |-> FALSE, configured |-> FALSE,
           Config |-> NoConfig]

\* &MicroVM{ID: id, Name: name, SocketPath: path, Config: cfg, ...}
NewVM(id, name, path, cfg) ==
    [FreeVM EXCEPT !.alloc = TRUE, !.ID = id, !.Name = name,
                   !.SocketPath = path, !.Config = cfg]

\* a handler task between two requests
IdleTask == [op |-> "none", pc |-> "idle", req |-> EmptyStr, token |-> EmptyStr,
             force |-> FALSE, v |-> NoVM, id |-> EmptyStr, name |-> EmptyStr,
             k |-> 0, err |-> FALSE, peer |-> FALSE, late |-> FALSE, resp |-> 0,
             todo |-> {}, infos |-> {}, out |-> <<>>, raw |-> EmptyBody,
             body |-> EmptyBody, fresh |-> FALSE, calls |-> <<>>]

\* the last step sent no response
NoReply == [op |-> "none", status |-> 0, v |-> NoVM, token |-> EmptyStr,
            out |-> <<>>, late |-> FALSE, raw |-> EmptyBody, peer |-> FALSE,
            fresh |-> FALSE, calls |-> <<>>]

\* no list was answered since the registry changed
NoList == [valid |-> FALSE, order |-> <<>>]

\* a console session that was not opened yet
NoSession == [v |-> NoVM, p |-> 0, conn |-> "none", client |-> FALSE,
              reader |-> "none", writer |-> "none", recv |-> "none"]

\* the state New(cfg) returns, with clients of the given kind
InitWith(kind) ==
    /\ clients = kind
    /\ vm = [o \in Objs |-> FreeVM]
    /\ nextObj = 0
    /\ microVMs = {}
    /\ legacyVM = NoVM
    /\ MaxMicroVMs \in 1..MaxCap
    /\ fcBinary \in BOOLEAN
    /\ idCounter = 0
    /\ now = BaseSecs
    /\ mu = [o \in Objs |-> 0]
    /\ vmMuW = 0
    /\ vmMuR = {}
    /\ sockFiles = {}
    /\ proc = [p \in Pids |-> "none"]
    /\ procVM = [p \in Pids |-> NoVM]
    /\ nextPid = 0
    /\ waiter = [p \in Pids |-> "none"]
    /\ task = [t \in Tasks |-> IdleTask]
    /\ reply = NoReply
    /\ createResp = [o \in Objs |-> [status |-> 0, peer |-> FALSE]]
    /\ deletedOK = {}
    /\ reqOf = [o \in Objs |-> EmptyBody]
    /\ lastList = NoList
    /\ sess = [s \in Sessions |-> NoSession]
    /\ nextSess = 0
    /\ stdout = [p \in Pids |-> <<>>]
    /\ stolen = {}
    /\ listener = "open"
    /\ shut = "idle"
    /\ shutTodo = {}
    /\ exited = FALSE

Init == InitWith("concurrent")
InitSeq == InitWith("sequential")

\* no request is being served
Quiet == \A u \in Tasks : task[u].pc = "idle"

\* a task may take a new request: the listener accepts connections
Free(t) == /\ task[t].pc = "idle"
           /\ listener = "open"
           /\ clients = "sequential" => Quiet

\* the task answers with an HTTP status and ends
Respond(tk, status) == [tk EXCEPT !.pc = "done", !.resp = status]

\* task t moves to tk; a task that answered becomes idle again and its
\* response is recorded
Step(t, tk) ==
    /\ task' = [task EXCEPT ![t] = IF tk.pc = "done" THEN IdleTask ELSE tk]
    /\ reply' = IF tk.pc = "done"
                THEN [op |-> tk.op, status |-> tk.resp, v |-> tk.v,
                      token |-> tk.token, out |-> tk.out, late |-> tk.late,
                      raw |-> tk.raw, peer |-> tk.peer, fresh |-> tk.fresh,
                      calls |-> tk.calls]
                ELSE NoReply
    /\ createResp' = IF tk.pc = "done" /\ tk.op = "create" /\ tk.v # NoVM
                     THEN [createResp EXCEPT ![tk.v] =
                             [status |-> tk.resp, peer |-> tk.peer]]
                     ELSE createResp

\* MicroVMInfo built from a record (Running: vm.started, PID when a process
\* is attached, Config: vm.Config)
Info(o) == [o |-> o, id |-> vm[o].ID, name |-> vm[o].Name,
            running |-> vm[o].started, config |-> vm[o].Config,
            pid |-> IF vm[o].fcProcess > 0 THEN vm[o].fcProcess ELSE 0]

LegacyMatches(token) ==
    /\ legacyVM # NoVM
    /\ (vm[legacyVM].ID = token \/ vm[legacyVM].Name = token)

\* a lookup that matches exact identifiers and names only
getVMByIDOrNameNoPrefix(token) ==
    IF \E o \in microVMs : vm[o].ID = token
    THEN {o \in microVMs : vm[o].ID = token}
    ELSE IF \E o \in microVMs : vm[o].Name = token
         THEN {o \in microVMs : vm[o].Name = token}
         ELSE IF LegacyMatches(token) THEN {legacyVM} ELSE {NoVM}

\* getVMByIDOrName: the set of records the lookup can return (the map is
\* iterated in an unspecified order, the first match is returned)
getVMByIDOrName(token) ==
    IF \E o \in microVMs : vm[o].ID = token
    THEN {o \in microVMs : vm[o].ID = token}
    ELSE IF \E o \in microVMs : vm[o].Name = token \/ HasPrefix(vm[o].ID, token)
         THEN {o \in microVMs : vm[o].Name = token \/ HasPrefix(vm[o].ID, token)}
         ELSE IF LegacyMatches(token) THEN {legacyVM} ELSE {NoVM}

\* vm.mu.RLock() can be taken: no writer holds vmMu
CanRLock == vmMuW = 0
\* vm.mu.Lock() can be taken
CanLock == vmMuW = 0 /\ vmMuR = {}

\* ------------------------------------------------ callers' continuations
\* what each caller of startFirecrackerForVM does with its result
StartReturn(tk, err) ==
    CASE tk.op = "create" ->
           IF err THEN Respond(tk, 500)                 \* createMicroVM: 500
           ELSE [tk EXCEPT !.pc = "c_cfg", !.k = 0]
      [] tk.op = "proxy" ->
           IF err THEN Respond(tk, 503)                 \* handleProxy: 503
           ELSE [tk EXCEPT !.pc = "p_fwd"]
      [] OTHER ->                                       \* handleLegacyStart
           IF err THEN Respond(tk, 500)
           ELSE [tk EXCEPT !.pc = "ls_resp"]

\* what each caller of stopFirecrackerForVM does with its result
StopReturn(tk, err) ==
    CASE tk.op = "create" -> Respond(tk, 500)           \* rollback after a failed configure
      [] tk.op = "delete" ->
           IF err /\ ~tk.force THEN Respond(tk, 500)
           ELSE [tk EXCEPT !.pc = "d_remove"]
      [] OTHER ->                                       \* handleLegacyStop
           IF err THEN Respond(tk, 500) ELSE Respond(tk, 200)

\* ------------------------------------------------- startFirecrackerForVM
\* a return path that leaves the record lock locked
UnlockForgotten(o) == mu

\* defer vm.mu.Unlock() of startFirecrackerForVM and stopFirecrackerForVM
Unlock(o) == [mu EXCEPT ![o] = 0]

\* Lock, the started check, os.Remove of the stale socket, the binary check,
\* the pipes and exec.Cmd.Start.
Start1(t) ==
    /\ task[t].pc = "start1"
    /\ mu[task[t].v] = 0
    /\ LET o == task[t].v IN
       IF vm[o].started
       THEN /\ Step(t, StartReturn(task[t], FALSE))
            /\ UNCHANGED <<vm, mu, sockFiles, proc, procVM, nextPid>>
       ELSE /\ sockFiles' = sockFiles \ {vm[o].SocketPath}
            /\ \/ \* the firecracker binary is missing
                  /\ ~fcBinary
                  /\ Step(t, StartReturn(task[t], TRUE))
                  /\ UNCHANGED <<vm, mu, proc, procVM, nextPid>>
               \/ \* exec fails: the Cmd and its pipes stay on the record
                  /\ fcBinary
                  /\ vm' = [vm EXCEPT ![o].fcProcess = NoProcess,
                                      ![o].console = TRUE]
                  /\ Step(t, StartReturn(task[t], TRUE))
                  /\ UNCHANGED <<mu, proc, procVM, nextPid>>
               \/ \* the subprocess runs; the lock is kept while waiting for the socket
                  /\ fcBinary
                  /\ nextPid < MaxProcs
                  /\ nextPid' = nextPid + 1
                  /\ proc' = [proc EXCEPT ![nextPid + 1] = "alive"]
                  /\ procVM' = [procVM EXCEPT ![nextPid + 1] = o]
                  /\ vm' = [vm EXCEPT ![o].fcProcess = nextPid + 1,
                                      ![o].console = TRUE]
                  /\ mu' = [mu EXCEPT ![o] = t]
                  /\ Step(t, [task[t] EXCEPT !.pc = "start2"])
    /\ UNCHANGED <<nextObj, microVMs, legacyVM, idCounter, now, vmMuW, vmMuR,
                   waiter, deletedOK, MaxMicroVMs, fcBinary, reqOf, clients, lastList, conVars, shutVars>>

\* the record after the socket became connectable
Spawned(r) == [r EXCEPT !.proxy = TRUE, !.started = TRUE]

\* waitForSocketPath and the rest of startFirecrackerForVM
Start2(t) ==
    /\ task[t].pc = "start2"
    /\ LET o == task[t].v
           p == vm[o].fcProcess IN
       \/ \* the socket exists and accepts a connection
          /\ proc[p] = "alive"
          /\ sockFiles' = sockFiles \cup {vm[o].SocketPath}
          /\ vm' = [vm EXCEPT ![o] = Spawned(vm[o])]
          /\ waiter' = [waiter EXCEPT ![p] = "waiting"]
          /\ Step(t, StartReturn(task[t], FALSE))
          /\ UNCHANGED proc
       \/ \* 30 s timeout: the child is killed, the record keeps Cmd and pipes
          /\ proc' = [proc EXCEPT ![p] = IF @ = "alive" THEN "killed" ELSE @]
          /\ Step(t, StartReturn(task[t], TRUE))
          /\ UNCHANGED <<vm, sockFiles, waiter>>
    /\ mu' = Unlock(task[t].v)
    /\ UNCHANGED <<nextObj, microVMs, legacyVM, idCounter, now, vmMuW, vmMuR,
                   procVM, nextPid, deletedOK, MaxMicroVMs, fcBinary, reqOf, clients, lastList, conVars, shutVars>>

\* -------------------------------------------------- stopFirecrackerForVM
\* os.Process.Signal fails once the process was waited for (ErrProcessDone)
SignalFails(p) == waiter[p] \in {"exited", "done"}

\* a stop that goes on whenever a process handle is attached
StopEarlyNoProcessOnly(r) == r.fcProcess <= NoProcess

\* if vm.fcProcess == nil || !vm.started { return nil }
StopEarly(r) == r.fcProcess = NoCmd \/ ~r.started

\* Lock, the early return, and the interrupt signal
Stop1(t) ==
    /\ task[t].pc = "stop1"
    /\ mu[task[t].v] = 0
    /\ LET o == task[t].v IN
       IF StopEarly(vm[o])
       THEN /\ Step(t, StopReturn(task[t], FALSE))
            /\ UNCHANGED mu
       ELSE IF SignalFails(vm[o].fcProcess)
            THEN \* return vm.fcProcess.Process.Kill(), which fails the same way
                 /\ Step(t, StopReturn(task[t], TRUE))
                 /\ UNCHANGED mu
            ELSE /\ mu' = [mu EXCEPT ![o] = t]
                 /\ Step(t, [task[t] EXCEPT !.pc = "stop2"])
    /\ UNCHANGED <<vm, nextObj, microVMs, legacyVM, idCounter, now, vmMuW, vmMuR,
                   sockFiles, proc, procVM, nextPid, waiter, deletedOK, MaxMicroVMs, fcBinary, reqOf, clients, lastList, conVars, shutVars>>

\* the record after stop cleared it (consoleIn / consoleOut are not touched)
Stopped(r) == [r EXCEPT !.started = FALSE, !.fcProcess = NoCmd, !.proxy = FALSE]

\* the process exits within 5 s or is killed; fields cleared, socket removed
Stop2(t) ==
    /\ task[t].pc = "stop2"
    /\ LET o == task[t].v
           p == vm[o].fcProcess IN
       /\ proc' = [proc EXCEPT ![p] = IF @ = "alive" THEN "killed" ELSE @]
       /\ vm' = [vm EXCEPT ![o] = Stopped(vm[o])]
       /\ sockFiles' = sockFiles \ {vm[o].SocketPath}
       /\ mu' = Unlock(o)
       /\ Step(t, StopReturn(task[t], FALSE))
    /\ UNCHANGED <<nextObj, microVMs, legacyVM, idCounter, now, vmMuW, vmMuR,
                   procVM, nextPid, waiter, deletedOK, MaxMicroVMs, fcBinary, reqOf, clients, lastList, conVars, shutVars>>

\* ------------------------------------------ the subprocess and its waiter
\* a Firecracker subprocess exits on its own or is killed from outside
ProcExit(p) ==
    /\ proc[p] = "alive"
    /\ proc' = [proc EXCEPT ![p] = "exited"]
    /\ UNCHANGED <<vm, nextObj, microVMs, legacyVM, idCounter, now, mu, vmMuW,
                   vmMuR, sockFiles, procVM, nextPid, waiter, task, deletedOK, createResp, MaxMicroVMs, fcBinary, reqOf, clients, lastList, conVars, shutVars>>
    /\ reply' = NoReply

\* vm.fcProcess.Wait() returns in the monitor goroutine
WaiterReap(p) ==
    /\ waiter[p] = "waiting"
    /\ proc[p] \in {"exited", "killed"}
    /\ waiter' = [waiter EXCEPT ![p] = "exited"]
    /\ UNCHANGED <<vm, nextObj, microVMs, legacyVM, idCounter, now, mu, vmMuW,
                   vmMuR, sockFiles, proc, procVM, nextPid, task, deletedOK, createResp, MaxMicroVMs, fcBinary, reqOf, clients, lastList, conVars, shutVars>>
    /\ reply' = NoReply

\* the record after the monitor goroutine ran
Exited(r) == [r EXCEPT !.started = FALSE, !.proxy = FALSE]

\* the monitor goroutine takes the record lock and flips started
WaiterFlip(p) ==
    /\ waiter[p] = "exited"
    /\ mu[procVM[p]] = 0
    /\ vm' = [vm EXCEPT ![procVM[p]] = Exited(vm[procVM[p]])]
    /\ waiter' = [waiter EXCEPT ![p] = "done"]
    /\ UNCHANGED <<nextObj, microVMs, legacyVM, idCounter, now, mu, vmMuW,
                   vmMuR, sockFiles, proc, procVM, nextPid, task, deletedOK, createResp, MaxMicroVMs, fcBinary, reqOf, clients, lastList, conVars, shutVars>>
    /\ reply' = NoReply

\* the wall clock advances by a second
Tick ==
    /\ now < BaseSecs + MaxTicks
    /\ now' = now + 1
    /\ UNCHANGED <<vm, nextObj, microVMs, legacyVM, idCounter, mu, vmMuW, vmMuR,
                   sockFiles, proc, procVM, nextPid, waiter, task, createResp,
          deletedOK, createResp, MaxMicroVMs, fcBinary, reqOf, clients, lastList, conVars, shutVars>>
    /\ reply' = NoReply

\* ---------------------------------------------------------- createMicroVM
\* creates that passed the cap check and did not yet build their record
Pending == {u \in Tasks : task[u].pc \in {"c_id", "c_name", "c_check"}}

\* a cap check that lets one record more in
CapReachedOffByOne == Cardinality(microVMs) > MaxMicroVMs

\* the cap check of createMicroVM
CapReached == Cardinality(microVMs) >= MaxMicroVMs

\* another create carrying the same (non-empty) name is in flight
SameNameInFlight(t, name) ==
    {u \in Tasks \ {t} : /\ task[u].op = "create" /\ task[u].pc # "idle"
                         /\ name # EmptyStr /\ task[u].req = name}

\* decode, validation, defaults and the cap check under RLock (history:
\* raw, the body as it arrived; peer, a create with the same name is in
\* flight; fresh, no record of the registry has the name when the request
\* arrives)
CreateBegin(t, body) ==
    /\ Free(t)
    /\ CanRLock
    /\ idCounter + Cardinality(Pending) < MaxCreates
    /\ nextObj + Cardinality(Pending) < MaxObjs
    /\ LET name == body.Name
           tk == [IdleTask EXCEPT !.op = "create", !.req = name, !.raw = body,
                                  !.body = body,
                                  !.peer = SameNameInFlight(t, name) # {},
                                  !.fresh = \A o \in microVMs : vm[o].Name # name] IN
       IF Validate(body) # 0
       THEN Step(t, Respond(tk, Validate(body)))
       ELSE IF CapReached
       THEN Step(t, Respond([tk EXCEPT !.body = WithDefaults(body)], 429))
       ELSE /\ task' = [u \in Tasks |->
                          IF u = t THEN [tk EXCEPT !.pc = "c_id",
                                                   !.body = WithDefaults(body)]
                          ELSE IF u \in SameNameInFlight(t, name)
                               THEN [task[u] EXCEPT !.peer = TRUE]
                               ELSE task[u]]
            /\ reply' = NoReply /\ UNCHANGED createResp
    /\ UNCHANGED <<vm, nextObj, microVMs, legacyVM, idCounter, now, mu, vmMuW,
                   vmMuR, sockFiles, proc, procVM, nextPid, waiter, deletedOK, MaxMicroVMs, fcBinary, reqOf, clients, lastList, conVars, shutVars>>

\* generateID: atomic.AddUint64 and the identifier string
CreateGenID(t) ==
    /\ task[t].pc = "c_id"
    /\ idCounter' = idCounter + 1
    /\ task' = [task EXCEPT ![t].id = FormatID(now, idCounter + 1),
                            ![t].name = task[t].req,
                            ![t].pc = IF task[t].req = EmptyStr
                                      THEN "c_name" ELSE "c_check"]
    /\ UNCHANGED <<vm, nextObj, microVMs, legacyVM, now, mu, vmMuW, vmMuR,
                   sockFiles, proc, procVM, nextPid, waiter, deletedOK, createResp, MaxMicroVMs, fcBinary, reqOf, clients, lastList, conVars, shutVars>>
    /\ reply' = NoReply

\* name = fmt.Sprintf("microvm-%d", atomic.LoadUint64(&a.idCounter))
CreateAutoName(t) ==
    /\ task[t].pc = "c_name"
    /\ task' = [task EXCEPT ![t].name = AutoName(idCounter), ![t].pc = "c_check"]
    /\ UNCHANGED <<vm, nextObj, microVMs, legacyVM, idCounter, now, mu, vmMuW,
                   vmMuR, sockFiles, proc, procVM, nextPid, waiter, deletedOK, createResp, MaxMicroVMs, fcBinary, reqOf, clients, lastList, conVars, shutVars>>
    /\ reply' = NoReply

\* the name collision check under RLock, then the record is built
CreateNameCheck(t) ==
    /\ task[t].pc = "c_check"
    /\ CanRLock
    /\ IF \E o \in microVMs : vm[o].Name = task[t].name
       THEN /\ Step(t, Respond(task[t], 409))
            /\ UNCHANGED <<vm, nextObj, reqOf>>
       ELSE /\ nextObj' = nextObj + 1
            /\ vm' = [vm EXCEPT ![nextObj + 1] =
                        NewVM(task[t].id, task[t].name, SocketPathFor(task[t].id),
                              ConfigOf(task[t].body))]
            /\ reqOf' = [reqOf EXCEPT ![nextObj + 1] = task[t].raw]
            /\ Step(t, [task[t] EXCEPT !.v = nextObj + 1, !.pc = "start1"])
    /\ UNCHANGED <<microVMs, legacyVM, idCounter, now, mu, vmMuW, vmMuR,
                   sockFiles, proc, procVM, nextPid, waiter, deletedOK, MaxMicroVMs, fcBinary, clients, lastList, conVars, shutVars>>

\* a create flow that registers the record although a PUT failed
ConfigureNextNoRollback(tk, ok) ==
    IF tk.k + 1 = 4 \/ ~ok THEN [tk EXCEPT !.pc = "c_insert"]
    ELSE [tk EXCEPT !.k = tk.k + 1]

\* the create task after one putJSON of configureAndStartVM
ConfigureNext(tk, ok) ==
    IF ~ok THEN [tk EXCEPT !.pc = "stop1", !.err = TRUE]
    ELSE IF tk.k + 1 = 4 THEN [tk EXCEPT !.k = 4, !.pc = "c_insert"]
    ELSE [tk EXCEPT !.k = tk.k + 1]

\* an orchestrator that starts the instance before it configures it
PutSequenceStartFirst == <<"/actions", "/boot-source", "/drives/rootfs", "/machine-config">>

\* the PUTs of configureAndStartVM in program order; the body of the last
\* one is {"action_type": "InstanceStart"}
PutSequence == <<"/boot-source", "/drives/rootfs", "/machine-config", "/actions">>

\* what a PUT can come back with: a transport error (-1) or a status code
PutOutcomes == {-1, 204, 400}

\* putJSON returns an error: client.Do failed or resp.StatusCode >= 400
putJSON(outcome) == outcome = -1 \/ outcome >= 400

\* configureAndStartVM: the next of the four PUTs; a dead Firecracker
\* cannot answer.  calls: history, the PUTs issued so far and whether
\* putJSON returned an error
CreateConfigure(t) ==
    /\ task[t].pc = "c_cfg"
    /\ ~vm[task[t].v].Config.nil
    /\ \E outcome \in PutOutcomes :
         LET ok == ~putJSON(outcome)
             call == [path |-> PutSequence[task[t].k + 1], err |-> ~ok] IN
         /\ outcome # -1 => proc[vm[task[t].v].fcProcess] = "alive"
         /\ task' = [task EXCEPT ![t] =
                       [ConfigureNext(task[t], ok) EXCEPT
                          !.calls = Append(task[t].calls, call)]]
         /\ vm' = [vm EXCEPT ![task[t].v].configured = (ok /\ task[t].k + 1 = 4)]
    /\ UNCHANGED <<nextObj, microVMs, legacyVM, idCounter, now, mu, vmMuW, vmMuR,
                   sockFiles, proc, procVM, nextPid, waiter, deletedOK, createResp, MaxMicroVMs, fcBinary, reqOf, clients, lastList, conVars, shutVars>>
    /\ reply' = NoReply

\* a.microVMs[id] = vm
Insert(reg, o) == {x \in reg : vm[x].ID # vm[o].ID} \cup {o}

\* register the record under the write lock
CreateInsert(t) ==
    /\ task[t].pc = "c_insert"
    /\ CanLock
    /\ microVMs' = Insert(microVMs, task[t].v)
    /\ task' = [task EXCEPT ![t].pc = "c_resp"]
    /\ lastList' = NoList
    /\ UNCHANGED <<vm, nextObj, legacyVM, idCounter, now, mu, vmMuW, vmMuR,
                   sockFiles, proc, procVM, nextPid, waiter, deletedOK, createResp, MaxMicroVMs, fcBinary, reqOf, clients, conVars, shutVars>>
    /\ reply' = NoReply

\* 201 with the status view; vm.fcProcess.Process.Pid is read without the
\* lock and panics (status -1: the connection is dropped) when fcProcess is nil
CreateRespond(t) ==
    /\ task[t].pc = "c_resp"
    /\ Step(t,
                  IF vm[task[t].v].fcProcess = NoCmd
                  THEN Respond(task[t], -1)
                  ELSE [Respond(task[t], 201) EXCEPT !.out = <<Info(task[t].v)>>])
    /\ UNCHANGED <<vm, nextObj, microVMs, legacyVM, idCounter, now, mu, vmMuW,
                   vmMuR, sockFiles, proc, procVM, nextPid, waiter, deletedOK, MaxMicroVMs, fcBinary, reqOf, clients, lastList, conVars, shutVars>>

\* -------------------------------------- handleMicroVMByID: DELETE and GET
\* tokens a client may put in /agent/microvms/<token>
Tokens == {NameWeb, NameVm, NameIdLike, LegacyID}
          \cup {vm[o].ID : o \in {x \in Objs : vm[x].alloc}}

\* getVMByIDOrName, 404 when nothing matches, else stopFirecrackerForVM
DeleteBegin(t, token, force) ==
    /\ Free(t)
    /\ CanRLock
    /\ \E o \in getVMByIDOrName(token) :
         Step(t,
                    IF o = NoVM
                    THEN Respond([IdleTask EXCEPT !.op = "delete", !.token = token,
                                                  !.force = force], 404)
                    ELSE [IdleTask EXCEPT !.op = "delete", !.token = token,
                                          !.force = force, !.v = o, !.pc = "stop1"])
    /\ UNCHANGED <<vm, nextObj, microVMs, legacyVM, idCounter, now, mu, vmMuW,
                   vmMuR, sockFiles, proc, procVM, nextPid, waiter, deletedOK, MaxMicroVMs, fcBinary, reqOf, clients, lastList, conVars, shutVars>>

\* delete(a.microVMs, vm.ID)
Remove(reg, o) == {x \in reg : vm[x].ID # vm[o].ID}

\* map[string]string{"status": "deleted", "id": vm.ID}
DeletedBody(id) == [status |-> "deleted", id |-> id]

\* a delete answered 204 No Content without a body
DeleteResponseNoContent(tk) == Respond(tk, 204)

\* the answer of deleteMicroVM: no WriteHeader call, so the Encode writes
\* status 200, and the JSON body
DeleteResponse(tk) == [Respond(tk, 200) EXCEPT !.out = <<DeletedBody(vm[tk.v].ID)>>]

\* remove from the registry under the write lock and answer "deleted"
DeleteRemove(t) ==
    /\ task[t].pc = "d_remove"
    /\ CanLock
    /\ microVMs' = Remove(microVMs, task[t].v)
    /\ deletedOK' = deletedOK \cup {task[t].v}
    /\ Step(t, DeleteResponse(task[t]))
    /\ lastList' = NoList
    /\ UNCHANGED <<vm, nextObj, legacyVM, idCounter, now, mu, vmMuW, vmMuR,
                   sockFiles, proc, procVM, nextPid, waiter, MaxMicroVMs, fcBinary, reqOf, clients, conVars, shutVars>>

\* the subprocess attached to the record has died (on its own or killed
\* from outside the agent)
SubprocessDead(o) == vm[o].fcProcess > 0 /\ proc[vm[o].fcProcess] = "exited"

\* GET /agent/microvms/<token>: lookup (late: history, the subprocess of the
\* record was dead when the request started)
GetBegin(t, token) ==
    /\ Free(t)
    /\ CanRLock
    /\ \E o \in getVMByIDOrName(token) :
         Step(t,
                    IF o = NoVM
                    THEN Respond([IdleTask EXCEPT !.op = "get", !.token = token], 404)
                    ELSE [IdleTask EXCEPT !.op = "get", !.token = token,
                                          !.v = o, !.pc = "g_status",
                                          !.late = SubprocessDead(o)])
    /\ UNCHANGED <<vm, nextObj, microVMs, legacyVM, idCounter, now, mu, vmMuW,
                   vmMuR, sockFiles, proc, procVM, nextPid, waiter, deletedOK, MaxMicroVMs, fcBinary, reqOf, clients, lastList, conVars, shutVars>>

\* getMicroVMStatus under the record lock
GetStatus(t) ==
    /\ task[t].pc = "g_status"
    /\ mu[task[t].v] = 0
    /\ Step(t,
                  [Respond(task[t], 200) EXCEPT !.out = <<Info(task[t].v)>>])
    /\ UNCHANGED <<vm, nextObj, microVMs, legacyVM, idCounter, now, mu, vmMuW,
                   vmMuR, sockFiles, proc, procVM, nextPid, waiter, deletedOK, MaxMicroVMs, fcBinary, reqOf, clients, lastList, conVars, shutVars>>

\* ----------------------------------------------------------- listMicroVMs
Alphabet == <<"-", "/", "0", "1", "2", "3", "4", "5", "6", "7", "8", "9",
              "a", "b", "c", "d", "e", "f", "g", "i", "l", "m", "o", "r", "t",
              "u", "v", "w", "y">>

\* byte order of a character
Ord(c) == CHOOSE i \in 1..Len(Alphabet) : Alphabet[i] = c

RECURSIVE StrLess(_, _)
\* Go's a < b on strings
StrLess(a, b) ==
    IF b = <<>> THEN FALSE
    ELSE IF a = <<>> THEN TRUE
    ELSE IF Head(a) = Head(b) THEN StrLess(Tail(a), Tail(b))
    ELSE Ord(Head(a)) < Ord(Head(b))

\* sequences that enumerate the set S once each
Orders(S) == {f \in [1..Cardinality(S) -> S] :
                \A i, j \in 1..Cardinality(S) : i # j => f[i] # f[j]}

\* the results sort.Slice by Name can leave (the sort is not stable)
SortByName(S) == {f \in Orders(S) :
                    \A i \in 1..(Cardinality(S) - 1) : ~StrLess(f[i + 1].name, f[i].name)}

\* RLock, kept for the whole listing
ListBegin(t) ==
    /\ Free(t)
    /\ CanRLock
    /\ vmMuR' = vmMuR \cup {t}
    /\ task' = [task EXCEPT ![t] = [IdleTask EXCEPT !.op = "list", !.pc = "l_iter",
                                                    !.todo = microVMs]]
    /\ UNCHANGED <<vm, nextObj, microVMs, legacyVM, idCounter, now, mu, vmMuW,
                   sockFiles, proc, procVM, nextPid, waiter, deletedOK, createResp, MaxMicroVMs, fcBinary, reqOf, clients, lastList, conVars, shutVars>>
    /\ reply' = NoReply

\* one iteration of the loop: the record's view is taken under its lock
ListVisit(t) ==
    /\ task[t].pc = "l_iter"
    /\ \E o \in task[t].todo :
         /\ mu[o] = 0
         /\ task' = [task EXCEPT ![t].todo = @ \ {o},
                                 ![t].infos = @ \cup {Info(o)}]
    /\ UNCHANGED <<vm, nextObj, microVMs, legacyVM, idCounter, now, mu, vmMuW,
                   vmMuR, sockFiles, proc, procVM, nextPid, waiter, deletedOK, createResp, MaxMicroVMs, fcBinary, reqOf, clients, lastList, conVars, shutVars>>
    /\ reply' = NoReply

\* sort by name, encode, RUnlock
ListRespond(t) ==
    /\ task[t].pc = "l_iter"
    /\ task[t].todo = {}
    /\ \E f \in SortByName(task[t].infos) :
         /\ Step(t, [Respond(task[t], 200) EXCEPT !.out = f, !.infos = {}])
         /\ lastList' = [valid |-> TRUE,
                         order |-> [i \in 1..Len(f) |-> f[i].o]]
    /\ vmMuR' = vmMuR \ {t}
    /\ UNCHANGED <<vm, nextObj, microVMs, legacyVM, idCounter, now, mu, vmMuW,
                   sockFiles, proc, procVM, nextPid, waiter, deletedOK, MaxMicroVMs, fcBinary, reqOf, clients, conVars, shutVars>>

\* -------------------------------------------------------- handleVMConsole
\* a lookup that hands the console to any record with console handles
ConsoleVerdictHandlesOnly(o) == IF ~vm[o].console THEN 503 ELSE 200

\* the checks of handleVMConsole under the record lock: 503 when not
\* started, 503 without console handles, else the connection is hijacked
ConsoleVerdict(o) ==
    IF ~vm[o].started THEN 503
    ELSE IF ~vm[o].console THEN 503 ELSE 200

\* /agent/microvms/<token>/console: lookup, 404 when nothing matches
ConsoleBegin(t, token) ==
    /\ Free(t)
    /\ CanRLock
    /\ \E o \in getVMByIDOrName(token) :
         Step(t, IF o = NoVM
                 THEN Respond([IdleTask EXCEPT !.op = "console", !.token = token], 404)
                 ELSE [IdleTask EXCEPT !.op = "console", !.token = token,
                                       !.v = o, !.pc = "con_check"])
    /\ UNCHANGED <<vm, nextObj, microVMs, legacyVM, idCounter, now, mu, vmMuW,
                   vmMuR, sockFiles, proc, procVM, nextPid, waiter, deletedOK, MaxMicroVMs, fcBinary, reqOf, clients, lastList, conVars, shutVars>>

\* the checks, then Hijack, the 200 header and the two copy goroutines; the
\* handler stays in <-done
ConsoleCheck(t) ==
    /\ task[t].pc = "con_check"
    /\ mu[task[t].v] = 0
    /\ LET o == task[t].v IN
       IF ConsoleVerdict(o) # 200
       THEN /\ Step(t, Respond(task[t], ConsoleVerdict(o)))
            /\ UNCHANGED <<sess, nextSess>>
       ELSE /\ nextSess < MaxSessions
            /\ nextSess' = nextSess + 1
            /\ sess' = [sess EXCEPT ![nextSess + 1] =
                          [v |-> o, p |-> vm[o].fcProcess, conn |-> "open",
                           client |-> TRUE, reader |-> "reading",
                           writer |-> "reading", recv |-> "none"]]
            /\ task' = [task EXCEPT ![t].pc = "con_wait", ![t].k = nextSess + 1]
            /\ reply' = [NoReply EXCEPT !.op = "console", !.status = 200,
                                        !.v = o, !.token = task[t].token]
            /\ UNCHANGED createResp
    /\ UNCHANGED <<vm, nextObj, microVMs, legacyVM, idCounter, now, mu, vmMuW,
                   vmMuR, sockFiles, proc, procVM, nextPid, waiter, deletedOK, MaxMicroVMs, fcBinary, reqOf, clients, lastList, stdout, stolen, shutVars>>

\* sessions on the pipes of subprocess p whose handler has returned
EndedSessions(p) == {s \in Sessions : sess[s].p = p /\ sess[s].conn = "closed"}

\* the guest writes a chunk to its console (the subprocess's stdout)
ProcWrite(p) ==
    /\ proc[p] = "alive"
    /\ Len(stdout[p]) < MaxOut
    /\ stdout' = [stdout EXCEPT ![p] = Append(@, EndedSessions(p))]
    /\ reply' = NoReply
    /\ UNCHANGED <<vm, nextObj, microVMs, legacyVM, idCounter, now, mu, vmMuW,
                   vmMuR, sockFiles, proc, procVM, nextPid, waiter, task, deletedOK, createResp, MaxMicroVMs, fcBinary, reqOf, clients, lastList, sess, nextSess, stolen, shutVars>>

\* consoleOut.Read returns a chunk in the first goroutine; conn.Write fails
\* when the connection is gone and the goroutine ends
ReaderCopy(s) ==
    /\ sess[s].reader = "reading"
    /\ stdout[sess[s].p] # <<>>
    /\ stdout' = [stdout EXCEPT ![sess[s].p] = Tail(@)]
    /\ stolen' = IF s \in Head(stdout[sess[s].p]) THEN stolen \cup {s} ELSE stolen
    /\ sess' = [sess EXCEPT ![s].reader =
                   IF sess[s].conn = "open" /\ sess[s].client
                   THEN "reading" ELSE "ended"]
    /\ reply' = NoReply
    /\ UNCHANGED <<vm, nextObj, microVMs, legacyVM, idCounter, now, mu, vmMuW,
                   vmMuR, sockFiles, proc, procVM, nextPid, waiter, task, deletedOK, createResp, MaxMicroVMs, fcBinary, reqOf, clients, lastList, nextSess, shutVars>>

\* consoleOut.Read returns EOF: the subprocess is gone and the pipe is empty
ReaderEOF(s) ==
    /\ sess[s].reader = "reading"
    /\ proc[sess[s].p] # "alive"
    /\ stdout[sess[s].p] = <<>>
    /\ sess' = [sess EXCEPT ![s].reader = "ended"]
    /\ reply' = NoReply
    /\ UNCHANGED <<vm, nextObj, microVMs, legacyVM, idCounter, now, mu, vmMuW,
                   vmMuR, sockFiles, proc, procVM, nextPid, waiter, task, deletedOK, createResp, MaxMicroVMs, fcBinary, reqOf, clients, lastList, nextSess, stdout, stolen, shutVars>>

\* the client closes its side of the connection
ClientClose(s) ==
    /\ sess[s].conn = "open"
    /\ sess[s].client
    /\ sess' = [sess EXCEPT ![s].client = FALSE]
    /\ reply' = NoReply
    /\ UNCHANGED <<vm, nextObj, microVMs, legacyVM, idCounter, now, mu, vmMuW,
                   vmMuR, sockFiles, proc, procVM, nextPid, waiter, task, deletedOK, createResp, MaxMicroVMs, fcBinary, reqOf, clients, lastList, nextSess, stdout, stolen, shutVars>>

\* the second goroutine ends: conn.Read fails (the connection is gone) or
\* consoleIn.Write fails (the subprocess is gone)
WriterEnd(s) ==
    /\ sess[s].writer = "reading"
    /\ \/ ~sess[s].client
       \/ sess[s].conn = "closed"
       \/ proc[sess[s].p] # "alive"
    /\ sess' = [sess EXCEPT ![s].writer = "ended"]
    /\ reply' = NoReply
    /\ UNCHANGED <<vm, nextObj, microVMs, legacyVM, idCounter, now, mu, vmMuW,
                   vmMuR, sockFiles, proc, procVM, nextPid, waiter, task, deletedOK, createResp, MaxMicroVMs, fcBinary, reqOf, clients, lastList, nextSess, stdout, stolen, shutVars>>

\* the two copy goroutines of a session
Loops == {"reader", "writer"}

\* the loop of goroutine g has returned and its deferred done <- struct{}{} runs
Sending(s, g) == sess[s][g] = "ended" /\ sess[s].recv # g

\* <-done receives the signal of one goroutine whose loop has returned (done
\* is unbuffered: a send completes only in this receive); the handler
\* returns and the deferred conn.Close() runs
SessionEnd(t) ==
    /\ task[t].pc = "con_wait"
    /\ LET s == task[t].k IN
       \E g \in Loops :
          /\ Sending(s, g)
          /\ sess' = [sess EXCEPT ![s].conn = "closed", ![s].client = FALSE,
                                  ![s].recv = g]
    /\ task' = [task EXCEPT ![t] = IdleTask]
    /\ reply' = NoReply
    /\ UNCHANGED <<vm, nextObj, microVMs, legacyVM, idCounter, now, mu, vmMuW,
                   vmMuR, sockFiles, proc, procVM, nextPid, waiter, deletedOK, createResp, MaxMicroVMs, fcBinary, reqOf, clients, lastList, nextSess, stdout, stolen, shutVars>>

\* ------------------------------------------------ legacy singleton adapter
\* &MicroVM{ID: "legacy", Name: "default", SocketPath: a.config.SocketPath}
NewLegacyVM == NewVM(LegacyID, LegacyName, LegacySocketPath, NoConfig)

\* handleProxy without /microvms/ prefix and without X-MicroVM-ID:
\* vm := a.legacyVM
ProxyBegin(t) ==
    /\ Free(t)
    /\ task' = [task EXCEPT ![t] =
                  IF legacyVM = NoVM
                  THEN [IdleTask EXCEPT !.op = "proxy", !.pc = "p_pick"]
                  ELSE [IdleTask EXCEPT !.op = "proxy", !.v = legacyVM,
                          !.pc = IF vm[legacyVM].started THEN "p_fwd" ELSE "start1"]]
    /\ UNCHANGED <<vm, nextObj, microVMs, legacyVM, idCounter, now, mu, vmMuW,
                   vmMuR, sockFiles, proc, procVM, nextPid, waiter, deletedOK, createResp, MaxMicroVMs, fcBinary, reqOf, clients, lastList, conVars, shutVars>>
    /\ reply' = NoReply

\* "first available" record of the registry, else the legacy record is allocated
ProxyPick(t) ==
    /\ task[t].pc = "p_pick"
    /\ CanRLock
    /\ IF microVMs # {}
       THEN /\ \E o \in microVMs :
                 task' = [task EXCEPT ![t].v = o,
                            ![t].pc = IF vm[o].started THEN "p_fwd" ELSE "start1"]
            /\ UNCHANGED <<vm, nextObj, legacyVM>>
       ELSE /\ nextObj < MaxObjs
            /\ nextObj' = nextObj + 1
            /\ vm' = [vm EXCEPT ![nextObj + 1] = NewLegacyVM]
            /\ legacyVM' = nextObj + 1
            /\ task' = [task EXCEPT ![t].v = nextObj + 1, ![t].pc = "start1"]
    /\ UNCHANGED <<microVMs, idCounter, now, mu, vmMuW, vmMuR,
                   sockFiles, proc, procVM, nextPid, waiter, deletedOK, createResp, MaxMicroVMs, fcBinary, reqOf, clients, lastList, conVars, shutVars>>
    /\ reply' = NoReply

\* proxyToVM: the proxy handle is read under the record lock; nil gives 503,
\* else the request is forwarded (502 when Firecracker does not answer)
ProxyForward(t) ==
    /\ task[t].pc = "p_fwd"
    /\ mu[task[t].v] = 0
    /\ LET o == task[t].v IN
       Step(t,
                  IF ~vm[o].proxy THEN Respond(task[t], 503)
                  ELSE IF vm[o].fcProcess > 0 /\ proc[vm[o].fcProcess] = "alive"
                       THEN Respond(task[t], 200)
                       ELSE Respond(task[t], 502))
    /\ UNCHANGED <<vm, nextObj, microVMs, legacyVM, idCounter, now, mu, vmMuW,
                   vmMuR, sockFiles, proc, procVM, nextPid, waiter, deletedOK, MaxMicroVMs, fcBinary, reqOf, clients, lastList, conVars, shutVars>>

\* handleLegacyStart: the test a.legacyVM == nil, made without any lock;
\* with a record: "already_running" when started, else startFirecrackerForVM
LegacyStartBegin(t) ==
    /\ Free(t)
    /\ Step(t, IF legacyVM = NoVM
               THEN [IdleTask EXCEPT !.op = "lstart", !.pc = "ls_alloc"]
               ELSE IF vm[legacyVM].started
                    THEN IF vm[legacyVM].fcProcess = NoCmd
                         THEN Respond([IdleTask EXCEPT !.op = "lstart",
                                                       !.v = legacyVM], -1)
                         ELSE Respond([IdleTask EXCEPT !.op = "lstart",
                                                       !.v = legacyVM], 200)
                    ELSE [IdleTask EXCEPT !.op = "lstart", !.v = legacyVM,
                                          !.pc = "start1"])
    /\ UNCHANGED <<vm, nextObj, microVMs, legacyVM, idCounter, now, mu, vmMuW,
                   vmMuR, sockFiles, proc, procVM, nextPid, waiter, deletedOK, MaxMicroVMs, fcBinary, reqOf, clients, lastList, conVars, shutVars>>

\* a.legacyVM = &MicroVM{...} after the test saw nil, then the start of the
\* new record, which is not started
LegacyStartAlloc(t) ==
    /\ task[t].pc = "ls_alloc"
    /\ nextObj < MaxObjs
    /\ nextObj' = nextObj + 1
    /\ vm' = [vm EXCEPT ![nextObj + 1] = NewLegacyVM]
    /\ legacyVM' = nextObj + 1
    /\ Step(t, [task[t] EXCEPT !.v = nextObj + 1, !.pc = "start1"])
    /\ UNCHANGED <<microVMs, idCounter, now, mu, vmMuW, vmMuR,
                   sockFiles, proc, procVM, nextPid, waiter, deletedOK, MaxMicroVMs, fcBinary, reqOf, clients, lastList, conVars, shutVars>>

\* the "started" answer reads a.legacyVM.fcProcess.Process.Pid without the lock
LegacyStartRespond(t) ==
    /\ task[t].pc = "ls_resp"
    /\ Step(t,
                  IF vm[legacyVM].fcProcess = NoCmd
                  THEN Respond(task[t], -1)
                  ELSE Respond(task[t], 200))
    /\ UNCHANGED <<vm, nextObj, microVMs, legacyVM, idCounter, now, mu, vmMuW,
                   vmMuR, sockFiles, proc, procVM, nextPid, waiter, deletedOK, MaxMicroVMs, fcBinary, reqOf, clients, lastList, conVars, shutVars>>

\* handleLegacyStop: "not_running" without a started legacy record, else stop
LegacyStopBegin(t) ==
    /\ Free(t)
    /\ Step(t,
                  IF legacyVM = NoVM \/ ~vm[legacyVM].started
                  THEN Respond([IdleTask EXCEPT !.op = "lstop"], 200)
                  ELSE [IdleTask EXCEPT !.op = "lstop", !.v = legacyVM,
                                        !.pc = "stop1"])
    /\ UNCHANGED <<vm, nextObj, microVMs, legacyVM, idCounter, now, mu, vmMuW,
                   vmMuR, sockFiles, proc, procVM, nextPid, waiter, deletedOK, MaxMicroVMs, fcBinary, reqOf, clients, lastList, conVars, shutVars>>

\* a status handler that makes sure Firecracker runs before it reports
StatusEnsureRunning(tk) ==
    [tk EXCEPT !.pc = IF vm[tk.v].started THEN "lst_read" ELSE "start1"]

\* handleLegacyStatus with a legacy record: the record is only read
StatusCheckOnly(tk) == [tk EXCEPT !.pc = "lst_read"]

\* the status document: firecracker_running and pid
StatusBody(running, pid) == [running |-> running, pid |-> pid]

\* handleLegacyStatus: "firecracker_running": false without a legacy record
LegacyStatusBegin(t) ==
    /\ Free(t)
    /\ Step(t, IF legacyVM = NoVM
               THEN [Respond([IdleTask EXCEPT !.op = "lstatus"], 200)
                       EXCEPT !.out = <<StatusBody(FALSE, 0)>>]
               ELSE StatusCheckOnly([IdleTask EXCEPT !.op = "lstatus",
                                                     !.v = legacyVM]))
    /\ UNCHANGED <<vm, nextObj, microVMs, legacyVM, idCounter, now, mu, vmMuW,
                   vmMuR, sockFiles, proc, procVM, nextPid, waiter, deletedOK, MaxMicroVMs, fcBinary, reqOf, clients, lastList, conVars, shutVars>>

\* started and the pid are read under the record lock and encoded
LegacyStatusRead(t) ==
    /\ task[t].pc = "lst_read"
    /\ mu[task[t].v] = 0
    /\ LET o == task[t].v IN
       Step(t, [Respond(task[t], 200) EXCEPT
                  !.out = <<StatusBody(vm[o].started,
                                       IF vm[o].fcProcess > 0
                                       THEN vm[o].fcProcess ELSE 0)>>])
    /\ UNCHANGED <<vm, nextObj, microVMs, legacyVM, idCounter, now, mu, vmMuW,
                   vmMuR, sockFiles, proc, procVM, nextPid, waiter, deletedOK, MaxMicroVMs, fcBinary, reqOf, clients, lastList, conVars, shutVars>>

\* ------------------------------------------------------ signal and shutdown
\* main's signal goroutine cancels the context on SIGINT / SIGTERM
Signal ==
    /\ shut = "idle"
    /\ shut' = "signalled"
    /\ reply' = NoReply
    /\ UNCHANGED <<vm, nextObj, microVMs, legacyVM, idCounter, now, mu, vmMuW,
                   vmMuR, sockFiles, proc, procVM, nextPid, waiter, task, deletedOK, createResp, MaxMicroVMs, fcBinary, reqOf, clients, lastList, conVars, listener, shutTodo, exited>>

\* the shutdown goroutine wakes up and server.Shutdown closes the listener
ShutdownClose ==
    /\ shut = "signalled"
    /\ listener' = "closed"
    /\ shut' = "draining"
    /\ reply' = NoReply
    /\ UNCHANGED <<vm, nextObj, microVMs, legacyVM, idCounter, now, mu, vmMuW,
                   vmMuR, sockFiles, proc, procVM, nextPid, waiter, task, deletedOK, createResp, MaxMicroVMs, fcBinary, reqOf, clients, lastList, conVars, shutTodo, exited>>

\* server.Shutdown returns: the handlers are idle or the 5 s have passed
ShutdownDrained ==
    /\ shut = "draining"
    /\ shut' = "stopall"
    /\ reply' = NoReply
    /\ UNCHANGED <<vm, nextObj, microVMs, legacyVM, idCounter, now, mu, vmMuW,
                   vmMuR, sockFiles, proc, procVM, nextPid, waiter, task, deletedOK, createResp, MaxMicroVMs, fcBinary, reqOf, clients, lastList, conVars, listener, shutTodo, exited>>

\* stopAllMicroVMs takes the registry write lock
StopAllBegin ==
    /\ shut = "stopall"
    /\ CanLock
    /\ vmMuW' = ShutdownHolder
    /\ shutTodo' = microVMs \cup ({legacyVM} \ {NoVM})
    /\ shut' = "stopping"
    /\ reply' = NoReply
    /\ UNCHANGED <<vm, nextObj, microVMs, legacyVM, idCounter, now, mu,
                   vmMuR, sockFiles, proc, procVM, nextPid, waiter, task, deletedOK, createResp, MaxMicroVMs, fcBinary, reqOf, clients, lastList, conVars, listener, exited>>

\* stopFirecrackerForVM on the next record, its result ignored; the registry
\* records come first, the legacy record last
StopAllVisit(o) ==
    /\ shut = "stopping"
    /\ o \in shutTodo
    /\ o = legacyVM => shutTodo = {o}
    /\ mu[o] = 0
    /\ IF vm[o].fcProcess = NoCmd \/ ~vm[o].started \/ SignalFails(vm[o].fcProcess)
       THEN UNCHANGED <<vm, proc, sockFiles>>
       ELSE /\ proc' = [proc EXCEPT ![vm[o].fcProcess] =
                          IF @ = "alive" THEN "killed" ELSE @]
            /\ vm' = [vm EXCEPT ![o] = Stopped(vm[o])]
            /\ sockFiles' = sockFiles \ {vm[o].SocketPath}
    /\ shutTodo' = shutTodo \ {o}
    /\ reply' = NoReply
    /\ UNCHANGED <<nextObj, microVMs, legacyVM, idCounter, now, mu, vmMuW,
                   vmMuR, procVM, nextPid, waiter, task, deletedOK, createResp, MaxMicroVMs, fcBinary, reqOf, clients, lastList, conVars, listener, shut, exited>>

\* stopAllMicroVMs returns and releases the registry lock
StopAllEnd ==
    /\ shut = "stopping"
    /\ shutTodo = {}
    /\ vmMuW' = 0
    /\ shut' = "done"
    /\ reply' = NoReply
    /\ UNCHANGED <<vm, nextObj, microVMs, legacyVM, idCounter, now, mu,
                   vmMuR, sockFiles, proc, procVM, nextPid, waiter, task, deletedOK, createResp, MaxMicroVMs, fcBinary, reqOf, clients, lastList, conVars, listener, shutTodo, exited>>

\* a goroutine of the agent after the process exited
DeadTask == [IdleTask EXCEPT !.pc = "exited"]

\* ListenAndServe returns ErrServerClosed as soon as the listener is closed;
\* Run returns nil, main returns and the process exits with all its
\* goroutines, whatever the shutdown goroutine has done so far.  The
\* subprocesses are not touched.
RunReturn ==
    /\ listener = "closed"
    /\ ~exited
    /\ exited' = TRUE
    /\ shut' = IF shut = "done" THEN "done" ELSE "dead"
    /\ task' = [t \in Tasks |-> DeadTask]
    /\ waiter' = [p \in Pids |-> IF waiter[p] \in {"waiting", "exited"}
                                  THEN "dead" ELSE waiter[p]]
    /\ sess' = [s \in Sessions |->
                  IF sess[s].conn = "none" THEN sess[s]
                  ELSE [sess[s] EXCEPT !.conn = "closed", !.client = FALSE,
                                       !.reader = "ended", !.writer = "ended"]]
    /\ reply' = NoReply
    /\ UNCHANGED <<vm, nextObj, microVMs, legacyVM, idCounter, now, mu, vmMuW,
                   vmMuR, sockFiles, proc, procVM, nextPid, deletedOK, createResp, MaxMicroVMs, fcBinary, reqOf, clients, lastList, nextSess, stdout, stolen, listener, shutTodo>>

\* ---------------------------------------------------------- specification
\* names and tokens the clients of each specification use
RegNames == {EmptyStr, NameVm}
RegTokens == {NameVm, AutoName(1)}

CreateReqOf(bodies) == \E t \in Tasks : \E body \in bodies : CreateBegin(t, body)
CreateReq(names) == CreateReqOf(BasicBodies(names))
CreateSteps == \E t \in Tasks :
                 \/ CreateGenID(t) \/ CreateAutoName(t) \/ CreateNameCheck(t)
                 \/ CreateConfigure(t) \/ CreateInsert(t) \/ CreateRespond(t)
StartStop == \E t \in Tasks : Start1(t) \/ Start2(t) \/ Stop1(t) \/ Stop2(t)
DeleteReq(tokens) == \E t \in Tasks : \E token \in tokens, force \in BOOLEAN :
                       DeleteBegin(t, token, force)
DeleteSteps == \E t \in Tasks : DeleteRemove(t)
GetReq(tokens) == \E t \in Tasks : \E token \in tokens : GetBegin(t, token)
GetSteps == \E t \in Tasks : GetStatus(t)
ListReq == \E t \in Tasks : ListBegin(t)
ListSteps == \E t \in Tasks : ListVisit(t) \/ ListRespond(t)
ProxyReq == \E t \in Tasks : ProxyBegin(t)
ProxySteps == \E t \in Tasks : ProxyPick(t) \/ ProxyForward(t)
LegacyReq == \E t \in Tasks : LegacyStartBegin(t) \/ LegacyStopBegin(t)
LegacySteps == \E t \in Tasks : LegacyStartAlloc(t) \/ LegacyStartRespond(t)
LegacyStatusReq == \E t \in Tasks : LegacyStatusBegin(t)
LegacyStatusSteps == \E t \in Tasks : LegacyStatusRead(t)
Subprocess == \E p \in Pids : ProcExit(p) \/ WaiterReap(p) \/ WaiterFlip(p)
ShutdownSteps == \/ Signal \/ ShutdownClose \/ ShutdownDrained \/ StopAllBegin
                 \/ (\E o \in Objs : StopAllVisit(o)) \/ StopAllEnd \/ RunReturn
ConsoleReq(tokens) == \E t \in Tasks : \E token \in tokens : ConsoleBegin(t, token)
ConsoleSteps == \/ \E t \in Tasks : ConsoleCheck(t) \/ SessionEnd(t)
                \/ \E s \in Sessions : \/ ReaderCopy(s) \/ ReaderEOF(s)
                                        \/ ClientClose(s) \/ WriterEnd(s)
                \/ \E p \in Pids : ProcWrite(p)

\* a client sends a request
Requests == CreateReq(ReqNames) \/ DeleteReq(Tokens) \/ GetReq(Tokens)
            \/ ListReq \/ ProxyReq \/ LegacyReq \/ ConsoleReq(Tokens)
            \/ LegacyStatusReq
\* a handler takes a step
Steps == CreateSteps \/ StartStop \/ DeleteSteps \/ GetSteps \/ ListSteps
         \/ ProxySteps \/ LegacySteps \/ ConsoleSteps \/ LegacyStatusSteps

\* the whole agent, requests served concurrently
Next == Requests \/ Steps \/ Subprocess \/ Tick \/ ShutdownSteps

Spec == Init /\ [][Next]_vars

\* the whole agent with one request at a time; subprocesses and their
\* waiters still run concurrently with the handler
SpecSeq == InitSeq /\ [][Next]_vars

\* the registry under concurrent creates and deletes
NextRegistry == CreateReq(RegNames) \/ CreateSteps \/ StartStop
                \/ DeleteReq(RegTokens) \/ DeleteSteps

SpecRegistry == Init /\ [][NextRegistry]_vars

\* creates and status queries one at a time, subprocesses exiting at any moment
NextCreate == CreateReq(RegNames) \/ GetReq(RegTokens)
              \/ CreateSteps \/ StartStop \/ GetSteps \/ Subprocess

SpecCreate == InitSeq /\ [][NextCreate]_vars

\* names and tokens of the lookup scenarios
LookupNames == {EmptyStr, NameVm, NameIdLike}
LookupTokens == {NameVm, NameIdLike, LegacyID} \cup {vm[o].ID : o \in microVMs}

\* lookups: creates, deletes, status queries, lists and the legacy record,
\* one request at a time
NextLookup == CreateReq(LookupNames) \/ DeleteReq(LookupTokens)
              \/ GetReq(LookupTokens) \/ ListReq \/ LegacyReq
              \/ CreateSteps \/ StartStop \/ DeleteSteps \/ GetSteps \/ ListSteps
              \/ LegacySteps \/ Tick

SpecLookup == InitSeq /\ [][NextLookup]_vars

\* names and tokens of the prefix scenarios: every prefix of five or more
\* characters of a registered identifier
PrefixNames == {EmptyStr, NameIdLike}
PrefixTokens == UNION {{SubSeq(vm[o].ID, 1, n) : n \in 5..Len(vm[o].ID)} : o \in microVMs}

\* creates and lookups by identifier prefix, one request at a time, the
\* clock advancing between creates
NextPrefix == CreateReq(PrefixNames) \/ GetReq(PrefixTokens)
              \/ CreateSteps \/ StartStop \/ GetSteps \/ Tick

SpecPrefix == InitSeq /\ [][NextPrefix]_vars

\* names of the listing scenarios
ListNames == {EmptyStr, NameVm}

\* concurrent creates and lists
NextList == CreateReq(ListNames) \/ CreateSteps \/ StartStop
            \/ ListReq \/ ListSteps

SpecList == Init /\ [][NextList]_vars

\* names and tokens of the scenarios with a status query during a delete
RaceNames == {EmptyStr, NameVm}
RaceTokens == {NameVm}

\* creates, deletes and status queries served concurrently
NextGetDelete == CreateReq(RaceNames) \/ CreateSteps \/ StartStop
                 \/ DeleteReq(RaceTokens) \/ DeleteSteps
                 \/ GetReq(RaceTokens) \/ GetSteps

SpecGetDelete == Init /\ [][NextGetDelete]_vars

\* names and tokens of the console scenarios
ConsoleNames == {EmptyStr}
ConsoleTokens == {AutoName(1), NameWeb}

\* console sessions on created records, one request at a time, with
\* subprocesses writing to their console and exiting at any moment
NextConsole == CreateReq(ConsoleNames) \/ CreateSteps \/ StartStop
               \/ ConsoleReq(ConsoleTokens) \/ ConsoleSteps \/ Subprocess

SpecConsole == InitSeq /\ [][NextConsole]_vars

\* console requests and their refusal, one request at a time; a session
\* ends when its client disconnects
NextRefuse == CreateReq(ConsoleNames) \/ CreateSteps \/ StartStop \/ Subprocess
              \/ ConsoleReq(ConsoleTokens)
              \/ (\E t \in Tasks : ConsoleCheck(t) \/ SessionEnd(t))
              \/ (\E s \in Sessions : ClientClose(s) \/ WriterEnd(s))

SpecRefuse == InitSeq /\ [][NextRefuse]_vars

\* names of the shutdown scenarios
ShutNames == {EmptyStr}

\* creates and legacy starts, one request at a time, subprocesses exiting
\* at any moment and a shutdown signal arriving at any moment
NextShutdown == CreateReq(ShutNames) \/ CreateSteps \/ StartStop
                \/ LegacyReq \/ LegacySteps \/ Subprocess \/ ShutdownSteps

SpecShutdown == InitSeq /\ [][NextShutdown]_vars

\* names and tokens of the delete scenarios
DeleteNames == {EmptyStr}
DeleteTokens == {AutoName(1), NameWeb}

\* creates and deletes, one request at a time, subprocesses exiting at any
\* moment
NextDelete == CreateReq(DeleteNames) \/ CreateSteps \/ StartStop
              \/ DeleteReq(DeleteTokens) \/ DeleteSteps \/ Subprocess

SpecDelete == InitSeq /\ [][NextDelete]_vars

\* names of the create scenarios without queries
FlowNames == {EmptyStr}

\* creates one at a time, subprocesses exiting at any moment
NextFlow == CreateReq(FlowNames) \/ CreateSteps \/ StartStop \/ Subprocess

SpecFlow == InitSeq /\ [][NextFlow]_vars

\* names and tokens of the configuration scenarios
ConfigNames == {EmptyStr}
ConfigTokens == {AutoName(1)}

\* creates with different bodies and status queries, one request at a
\* time, subprocesses exiting at any moment
NextConfig == CreateReqOf(ValidBodies(ConfigNames)) \/ CreateSteps \/ StartStop
              \/ GetReq(ConfigTokens) \/ GetSteps
              \/ (\E p \in Pids : ProcExit(p))

SpecConfig == InitSeq /\ [][NextConfig]_vars

\* names of the validation scenarios
ValidateNames == {EmptyStr}

\* creates with and without kernel and rootfs, one request at a time
NextValidate ==
    CreateReqOf(InvalidBodies(ValidateNames) \cup ValidBodies(ValidateNames))
    \/ CreateSteps \/ StartStop

SpecValidate == InitSeq /\ [][NextValidate]_vars

\* names of the scenarios with concurrent named creates: the clients pick
\* a name that no record of the registry has and no create in flight carries
DistinctNames == {NameVm, NameWeb}
UnusedNames ==
    {n \in DistinctNames :
        /\ \A o \in microVMs : vm[o].Name # n
        /\ \A t \in Tasks : task[t].pc # "idle" => task[t].req # n}

\* concurrent creates that carry pairwise distinct names
NextDistinct ==
    \/ CreateReqOf(NamedBodies(UnusedNames))
    \/ \E t \in Tasks : \/ CreateGenID(t) \/ CreateNameCheck(t)
                         \/ CreateConfigure(t) \/ CreateInsert(t)
                         \/ CreateRespond(t)
    \/ StartStop

SpecDistinct == Init /\ [][NextDistinct]_vars

\* names and tokens of the status scenarios
QueryNames == {EmptyStr}
QueryTokens == {AutoName(1), LegacyID}

\* the three status queries next to creates and legacy starts and stops,
\* one request at a time
NextQuery == CreateReq(QueryNames) \/ CreateSteps \/ StartStop
             \/ LegacyReq \/ LegacySteps
             \/ GetReq(QueryTokens) \/ GetSteps \/ ListReq \/ ListSteps
             \/ LegacyStatusReq \/ LegacyStatusSteps

SpecQuery == InitSeq /\ [][NextQuery]_vars

\* names and tokens of the locking scenarios
LockNames == {EmptyStr}
LockTokens == {AutoName(1)}

\* every user of the registry lock and of the record locks, concurrently:
\* create, delete, lookup, list, the exit monitors and the shutdown
NextLocks == CreateReq(LockNames) \/ CreateSteps \/ StartStop
             \/ DeleteReq(LockTokens) \/ DeleteSteps
             \/ ListReq \/ ListSteps
             \/ (\E p \in Pids : WaiterReap(p) \/ WaiterFlip(p))
             \/ ShutdownSteps

\* the binary is installed and the cap is not the limit
InitLocks == Init /\ fcBinary /\ MaxMicroVMs = MaxCap

SpecLocks == InitLocks /\ [][NextLocks]_vars

\* concurrent requests to the legacy endpoints: /agent/start, /agent/stop
\* and un-prefixed passthrough, with an empty registry
NextLegacy == LegacyReq \/ LegacySteps \/ ProxyReq \/ ProxySteps
              \/ StartStop \/ Subprocess

SpecLegacy == Init /\ [][NextLegacy]_vars

\* names and tokens of the lifecycle scenarios
LifeNames == {EmptyStr}
LifeTokens == {AutoName(1), LegacyID}

\* record lifecycle: spawn, stop, subprocess exit, passthrough and legacy
\* requests, one request at a time
NextLife == CreateReq(LifeNames) \/ DeleteReq(LifeTokens)
            \/ GetReq(LifeTokens) \/ ListReq \/ ProxyReq \/ LegacyReq
            \/ CreateSteps \/ StartStop \/ DeleteSteps \/ GetSteps \/ ListSteps
            \/ ProxySteps \/ LegacySteps \/ Subprocess

SpecLife == InitSeq /\ [][NextLife]_vars

\* ------------------------------------------------------------ properties
\* startFirecrackerForVM returned nil for the object at least once
SpawnSucceeded(o) == \E p \in Pids : procVM[p] = o /\ waiter[p] # "none"

\* C1: the registry never holds more records than Config.MaxMicroVMs.
CapRespected == Cardinality(microVMs) <= MaxMicroVMs

\* C2: no two distinct records of the registry have the same name.
UniqueNames ==
    \A o1, o2 \in microVMs : o1 # o2 => vm[o1].Name # vm[o2].Name

\* C3: of the concurrent creates that carry the same name, spawn and
\* configure succeeding, only one is answered 201.
OneWinnerPerName ==
    \A o1, o2 \in Objs :
        (/\ o1 # o2
         /\ createResp[o1].peer /\ createResp[o2].peer
         /\ vm[o1].Name = vm[o2].Name
         /\ createResp[o1].status = 201)
        => createResp[o2].status # 201

\* C4: a record that list or lookup can return was spawned and went through
\* the four configure steps, and a create answered with an error left no
\* record in the registry.
CreateAtomic ==
    /\ \A o \in microVMs : SpawnSucceeded(o) /\ vm[o].configured
    /\ \A t \in Tasks :
         (task[t].op = "get" /\ task[t].v # NoVM)
         => (SpawnSucceeded(task[t].v) /\ vm[task[t].v].configured)
    /\ \A o \in Objs :
         createResp[o].status \in {400, 409, 429, 500} => o \notin microVMs

\* a create was rolled back after a configure step failed, next to a
\* record that made it into the registry
CreateAtomicWitness ==
    \E o1, o2 \in Objs :
        /\ createResp[o1].status = 500 /\ SpawnSucceeded(o1)
        /\ ~vm[o1].configured /\ o1 \notin microVMs
        /\ o2 \in microVMs /\ createResp[o2].status = 201

\* C5: once a DELETE of a record returned success, the registry does not
\* hold the record and no later list or lookup returns it.
NoLookupAfterDelete ==
    \A x \in deletedOK :
        /\ x \notin microVMs
        /\ \A t \in Tasks :
             /\ ~(task[t].op = "get" /\ task[t].v = x)
             /\ ~(task[t].op = "list" /\ x \in task[t].todo)

\* C6: a DELETE whose token is the full identifier of a record that was
\* deleted before resolves to no record (404): it never acts on another one.
SecondDeleteNotFound ==
    \A x \in deletedOK : \A t \in Tasks :
        ~(/\ task[t].op = "delete" /\ task[t].pc # "idle"
          /\ task[t].token = vm[x].ID /\ task[t].v # x)

\* a record's subprocess exited on its own and its waiter has run
ExitedOnItsOwn(o) ==
    \E p \in Pids : procVM[p] = o /\ proc[p] = "exited" /\ waiter[p] = "done"

\* C7: a registry record whose subprocess exited on its own stays in the
\* registry, not running, as long as no DELETE acts on it.
CrashedStaysDown ==
    [][\A o \in Objs :
         (/\ o \in microVMs /\ ExitedOnItsOwn(o) /\ ~vm[o].started
          /\ \A t \in Tasks : ~(task[t].op = "delete" /\ task[t].v = o))
         => (o \in microVMs' /\ ~vm'[o].started)]_vars

\* C8: while the record lock is free, started goes with a process handle,
\* console handles and a proxy handle, and not started with none of them.
FlagsConsistent ==
    \A o \in Objs :
        (vm[o].alloc /\ mu[o] = 0)
        => /\ vm[o].started
                => (vm[o].fcProcess > 0 /\ vm[o].console /\ vm[o].proxy)
           /\ ~vm[o].started
                => (vm[o].fcProcess = NoCmd /\ ~vm[o].console /\ ~vm[o].proxy)

\* C9: while the record lock is free, the socket file of a record exists
\* exactly when the record is started.
SocketIffStarted ==
    \A o \in Objs :
        (vm[o].alloc /\ mu[o] = 0)
        => ((vm[o].SocketPath \in sockFiles) <=> vm[o].started)

\* the record the documented order of preference selects: exact
\* identifier, then exact name, then identifier prefix
Preferred(token) ==
    IF \E o \in microVMs : vm[o].ID = token
    THEN {o \in microVMs : vm[o].ID = token}
    ELSE IF \E o \in microVMs : vm[o].Name = token
         THEN {o \in microVMs : vm[o].Name = token}
         ELSE IF \E o \in microVMs : HasPrefix(vm[o].ID, token)
              THEN {o \in microVMs : HasPrefix(vm[o].ID, token)}
              ELSE IF LegacyMatches(token) THEN {legacyVM} ELSE {NoVM}

\* C10: a lookup returns the record with the token as identifier, else the
\* one with the token as name, and only else one by identifier prefix.
LookupPreference ==
    \A t \in Tasks :
        (task[t].op = "get" /\ task[t].pc = "g_status")
        => task[t].v \in Preferred(task[t].token)

\* the token is a prefix, five characters or longer, of the identifier of r
IsPrefixOf(token, r) == Len(token) >= 5 /\ HasPrefix(vm[r].ID, token)

\* C11 as stated: a lookup by any prefix of five or more characters of the
\* identifier of a registry record returns that record.
PrefixFindsRecord ==
    \A r \in microVMs :
        (reply.op = "get" /\ IsPrefixOf(reply.token, r)) => reply.v = r

\* no other record of the registry has the token as its identifier, as its
\* name or as a prefix of its identifier
Unambiguous(token, r) ==
    \A o \in microVMs \ {r} :
        vm[o].Name # token /\ ~HasPrefix(vm[o].ID, token)

\* C11 amended: a lookup by a prefix of five or more characters of the
\* identifier of a registry record, when no other record has the token as
\* name or as identifier prefix, is answered 200 with that record.
UnambiguousPrefixFindsRecord ==
    \A r \in microVMs :
        (/\ reply.op = "get" /\ IsPrefixOf(reply.token, r)
         /\ Unambiguous(reply.token, r))
        => (reply.status = 200 /\ reply.v = r)

\* a lookup by a strict prefix was answered with the record while another
\* record is registered
UnambiguousPrefixWitness ==
    \E r \in microVMs :
        /\ reply.op = "get" /\ reply.status = 200 /\ reply.v = r
        /\ IsPrefixOf(reply.token, r) /\ reply.token # vm[r].ID
        /\ Unambiguous(reply.token, r)
        /\ Cardinality(microVMs) > 1

\* C12: a list answer holds every registry record in ascending order of
\* name, and in the order of the previous list answer when no create or
\* delete changed the registry in between.
ListOrderStable ==
    [][reply'.op = "list"
       => /\ {reply'.out[i].o : i \in 1..Len(reply'.out)} = microVMs'
          /\ \A i \in 1..(Len(reply'.out) - 1) :
               ~StrLess(reply'.out[i + 1].name, reply'.out[i].name)
          /\ lastList.valid => lastList'.order = lastList.order]_vars

\* C13: when a create is answered 500 after its spawn succeeded (a
\* configure step failed), the record is not started, its socket file is
\* gone, no subprocess of it is alive and it is not in the registry.
RollbackComplete ==
    (reply.op = "create" /\ reply.status = 500 /\ SpawnSucceeded(reply.v))
    => /\ ~vm[reply.v].started
       /\ vm[reply.v].SocketPath \notin sockFiles
       /\ \A p \in Pids : procVM[p] = reply.v => proc[p] # "alive"
       /\ reply.v \notin microVMs

\* C14: a create is never left without its response, and a 201 reports
\* running = true and the pid of a live subprocess.
CreateResponseComplete ==
    reply.op = "create" /\ reply.status \notin {400, 409, 429, 500}
    => /\ reply.status = 201
       /\ reply.out[1].running
       /\ reply.out[1].pid \in Pids
       /\ proc[reply.out[1].pid] = "alive"

\* C15: a status query that starts after the subprocess of the record died
\* reports running = false.
DeathSeenByNextQuery ==
    (reply.op = "get" /\ reply.status = 200 /\ reply.late)
    => ~reply.out[1].running

\* C16: a status query answered 200 shows the full record, running with its
\* pid, also when a DELETE of the record runs at the same time.
GetSeesFullRecordOr404 ==
    reply.op = "get"
    => \/ reply.status = 404
       \/ /\ reply.status = 200
          /\ reply.out[1].running
          /\ reply.out[1].pid \in Pids

\* C17: a console request for a token that resolves to no record is
\* answered 404, and one for a record that is not running (its started flag
\* is false) is answered 503 and opens no session.
ConsoleRefusals ==
    reply.op = "console"
    => /\ (getVMByIDOrName(reply.token) = {NoVM}) => reply.status = 404
       /\ (reply.v # NoVM /\ ~vm[reply.v].started)
            => /\ reply.status = 503
               /\ \A s \in Sessions : sess[s].v = reply.v => sess[s].conn # "open"

\* a console request for a registry record whose subprocess had exited on
\* its own was answered 503
ConsoleRefusalsWitness ==
    /\ reply.op = "console" /\ reply.status = 503
    /\ reply.v \in microVMs /\ ExitedOnItsOwn(reply.v)

\* C18: no console session consumes output that the subprocess wrote after
\* the session had ended.
NoOutputStolen == stolen = {}

\* the records the agent holds: the registry and the legacy record
Held == microVMs \cup ({legacyVM} \ {NoVM})

\* C19: when Run has returned and the agent process has exited, no record
\* is left started with its subprocess alive.
StoppedBeforeExit ==
    exited => \A o \in Held :
                 ~(/\ vm[o].started /\ vm[o].fcProcess > 0
                   /\ proc[vm[o].fcProcess] = "alive")

\* C20: the listening socket is not closed while a record is started.
TeardownBeforeListenerClose ==
    listener = "closed" => \A o \in Held : ~vm[o].started

\* C21: an un-prefixed passthrough without X-MicroVM-ID is served by the
\* legacy record (identifier legacy, the configured socket path), never by
\* a record of the registry.
PassthroughUsesLegacy ==
    \A t \in Tasks :
        (task[t].op = "proxy" /\ task[t].v # NoVM)
        => /\ vm[task[t].v].ID = LegacyID
           /\ vm[task[t].v].SocketPath = LegacySocketPath
           /\ task[t].v \notin microVMs

\* C22 as stated: a successful DELETE is answered 204 with an empty body.
DeleteAnswers204 ==
    (reply.op = "delete" /\ reply.status \notin {404, 500})
    => (reply.status = 204 /\ reply.out = <<>>)

\* C22 amended: a DELETE is answered 404, 500 or 200; the 200 answer has the
\* body {"status": "deleted", "id": <identifier>} and the record has left
\* the registry.
DeleteAnswers200 ==
    reply.op = "delete"
    => /\ reply.status \in {200, 404, 500}
       /\ reply.status = 200
            => /\ reply.out = <<DeletedBody(vm[reply.v].ID)>>
               /\ reply.v \notin microVMs
               /\ reply.v \in deletedOK

\* a DELETE of a running registry record was answered 200
DeleteAnswers200Witness ==
    /\ reply.op = "delete" /\ reply.status = 200
    /\ createResp[reply.v].status = 201
    /\ \E p \in Pids : procVM[p] = reply.v /\ proc[p] = "killed"

\* the order the Firecracker API requires: the three configuration calls,
\* then the InstanceStart action
RequiredOrder == <<"/boot-source", "/drives/rootfs", "/machine-config", "/actions">>

\* the PUTs a create flow has issued follow the required order, all but the
\* last one succeeded, and a failed one is the last
OrderedCalls(c, pc) ==
    /\ Len(c) <= 4
    /\ \A i \in 1..Len(c) : c[i].path = RequiredOrder[i]
    /\ \A i \in 1..(Len(c) - 1) : ~c[i].err
    /\ (c # <<>> /\ c[Len(c)].err) => pc \in {"stop1", "stop2", "done"}
    /\ pc \in {"c_insert", "c_resp"} => (Len(c) = 4 /\ ~c[4].err)

\* C29: the orchestrator issues PUT /boot-source, /drives/rootfs,
\* /machine-config and /actions (InstanceStart) in this order, each only
\* after every earlier one succeeded; the first failing call ends the
\* sequence with an error and the record is registered only after all four
\* succeeded.
ConfigureInOrder ==
    /\ \A t \in Tasks : OrderedCalls(task[t].calls, task[t].pc)
    /\ OrderedCalls(reply.calls, "done")
    /\ (reply.op = "create" /\ reply.status = 201)
         => (Len(reply.calls) = 4 /\ ~reply.calls[4].err)
    /\ (reply.calls # <<>> /\ reply.calls[Len(reply.calls)].err)
         => reply.status = 500

\* a create was answered 500 after its third PUT failed: two calls had
\* succeeded and InstanceStart was not issued
ConfigureInOrderWitness ==
    /\ reply.op = "create" /\ reply.status = 500
    /\ Len(reply.calls) = 3 /\ reply.calls[3].err
    /\ reply.calls[3].path = "/machine-config"

\* a step in which a create request arrives while no other request is served
CreateArrives ==
    /\ clients = "sequential" /\ Quiet
    /\ \/ reply'.op = "create"
       \/ \E t \in Tasks : task'[t].op = "create" /\ task'[t].pc = "c_id"

\* the request of the create that arrives in this step
Arriving == IF reply'.op = "create" THEN reply'.raw
            ELSE task'[CHOOSE t \in Tasks : task'[t].op = "create"].raw

\* C23: with sequential requests, a valid create that arrives while the
\* registry holds fewer records than the cap is not answered 429, and one
\* that arrives while the registry holds cap records is answered 429
\* without allocating an identifier and without spawning a subprocess.
CapBoundary ==
    [][(CreateArrives /\ Validate(Arriving) = 0)
       => /\ Cardinality(microVMs) < MaxMicroVMs
               => (reply'.status # 429 /\ \E t \in Tasks : task'[t].pc = "c_id")
          /\ Cardinality(microVMs) = MaxMicroVMs
               => /\ reply'.op = "create" /\ reply'.status = 429
                  /\ \A t \in Tasks : task'[t].pc = "idle"
                  /\ idCounter' = idCounter /\ nextPid' = nextPid
                  /\ nextObj' = nextObj /\ proc' = proc /\ vm' = vm
                  /\ microVMs' = microVMs]_vars

\* a create was answered 429 while the registry held cap records, one of
\* them running, after an identifier had been handed out
CapBoundaryWitness ==
    /\ reply.op = "create" /\ reply.status = 429
    /\ Validate(reply.raw) = 0
    /\ Cardinality(microVMs) = MaxMicroVMs
    /\ idCounter = MaxMicroVMs
    /\ \E o \in microVMs : vm[o].started

\* C24: a create whose kernel or rootfs is empty is answered 400 as it
\* arrives and changes nothing: the identifier counter, the subprocesses,
\* the records, the socket files and the registry are as before, and no
\* create with an empty kernel or rootfs gets past the validation.
InvalidCreateRefused ==
    [][/\ \A t \in Tasks :
            (task[t].pc = "idle" /\ task'[t].pc = "c_id")
            => (task'[t].raw.Kernel # EmptyStr /\ task'[t].raw.Rootfs # EmptyStr)
       /\ (/\ reply'.op = "create"
           /\ (reply'.raw.Kernel = EmptyStr \/ reply'.raw.Rootfs = EmptyStr))
          => /\ reply'.status = 400
             /\ UNCHANGED <<idCounter, nextPid, nextObj, proc, procVM, vm,
                            sockFiles, microVMs, legacyVM, task>>]_vars

\* a create with a kernel and without rootfs was answered 400 while the
\* registry held a record
InvalidCreateRefusedWitness ==
    /\ reply.op = "create" /\ reply.status = 400
    /\ reply.raw.json /\ reply.raw.Kernel # EmptyStr /\ reply.raw.Rootfs = EmptyStr
    /\ microVMs # {} /\ idCounter > 0

\* the config the documented defaults give a request
Expected(req) ==
    [nil |-> FALSE,
     VCPUs |-> IF req.VCPUs = 0 THEN 1 ELSE req.VCPUs,
     MemoryMiB |-> IF req.MemoryMiB = 0 THEN 128 ELSE req.MemoryMiB,
     Kernel |-> req.Kernel, Rootfs |-> req.Rootfs,
     BootArgs |-> IF req.BootArgs = EmptyStr
                  THEN <<"console=ttyS0 reboot=k panic=1 pci=off">>
                  ELSE req.BootArgs]

\* C26: the config of a record is the create request with the defaults
\* applied, at every moment of the record's life, and the 201 answer and
\* every GET of the record return exactly that config.
ConfigFixed ==
    /\ \A o \in Objs : (vm[o].alloc /\ vm[o].ID # LegacyID)
                       => vm[o].Config = Expected(reqOf[o])
    /\ (reply.op \in {"get", "create"} /\ reply.status \in {200, 201})
         => reply.out[1].config = Expected(reqOf[reply.v])

\* a GET of a record whose subprocess had exited on its own returned the
\* defaults for what the request had left out and the request's own value
\* for the rest
ConfigFixedWitness ==
    /\ reply.op = "get" /\ reply.status = 200
    /\ SubprocessDead(reply.v)
    /\ reqOf[reply.v].VCPUs = 0 /\ reply.out[1].config.VCPUs = 1
    /\ reqOf[reply.v].MemoryMiB = 256 /\ reply.out[1].config.MemoryMiB = 256
    /\ reply.out[1].config.BootArgs = DefaultBootArgs

\* the last PUT of the create flow failed
ConfigureFailed(calls) == calls # <<>> /\ calls[Len(calls)].err

\* C25: a named create that shares its name with no create in flight and
\* with no record of the registry is never answered 409; it is answered
\* 429 only when the registry has no free slot and 500 only when its spawn
\* or a configure step failed, else 201; and every record answered 201 is
\* in the registry, whatever the other creates did.
DistinctNamesAllSucceed ==
    /\ (/\ reply.op = "create" /\ reply.raw.Name # EmptyStr
        /\ Validate(reply.raw) = 0 /\ ~reply.peer /\ reply.fresh)
       => /\ reply.status \in {201, 429, 500}
          /\ reply.status = 429 => Cardinality(microVMs) >= MaxMicroVMs
          /\ reply.status = 500
               => (~SpawnSucceeded(reply.v) \/ ConfigureFailed(reply.calls))
          /\ reply.status = 201 => reply.v \in microVMs
    /\ \A o \in Objs : createResp[o].status = 201 => o \in microVMs

\* two creates with different names were in flight together and both
\* records are in the registry, one of them answered 201
DistinctNamesWitness ==
    \E t \in Tasks :
        /\ task[t].pc = "c_resp" /\ task[t].v \in microVMs /\ ~task[t].peer
        /\ reply.op = "create" /\ reply.status = 201 /\ ~reply.peer
        /\ reply.v \in microVMs /\ reply.v # task[t].v
        /\ vm[reply.v].Name # vm[task[t].v].Name
        /\ task[t].v < reply.v

\* this step leaves the handles and the socket file of record x as they are
SameHandles(x) ==
    /\ vm'[x].started = vm[x].started
    /\ vm'[x].fcProcess = vm[x].fcProcess
    /\ vm'[x].console = vm[x].console
    /\ vm'[x].proxy = vm[x].proxy
    /\ (vm[x].SocketPath \in sockFiles') <=> (vm[x].SocketPath \in sockFiles)
    /\ \A p \in Pids : procVM[p] = x => proc'[p] = proc[p]

\* this step is part of a failure of record o: its subprocess exits, its
\* monitor goroutine runs, its spawn fails, one of its configure calls
\* fails, or its create is rolled back
FailureOf(o) ==
    \/ \E p \in Pids : /\ procVM[p] = o
                       /\ \/ proc[p] = "alive" /\ proc'[p] = "exited"
                          \/ /\ waiter[p] \in {"waiting", "exited"}
                             /\ waiter'[p] # waiter[p]
    \/ \E t \in Tasks :
         /\ task[t].op = "create" /\ task[t].v = o
         /\ \/ /\ task[t].pc \in {"start1", "start2"}
               /\ reply'.op = "create" /\ reply'.status = 500
            \/ task[t].pc = "c_cfg" /\ task'[t].pc = "stop1"
            \/ /\ task[t].err /\ task[t].pc \in {"stop1", "stop2"}
               /\ task'[t] # task[t]

\* C27: a step of a failure of one record (subprocess exit, failed spawn,
\* failed configure and its rollback) leaves the started flag, the process,
\* console and proxy handles, the socket file and the subprocess of every
\* other record unchanged.
FailureIsolation ==
    [][\A o \in Objs :
         FailureOf(o) => \A x \in Objs \ {o} : vm[x].alloc => SameHandles(x)]_vars

\* a create was answered 500 after its spawn had succeeded while another
\* record was running with its socket file and its subprocess
FailureIsolationWitness ==
    /\ reply.op = "create" /\ reply.status = 500
    /\ reply.v # NoVM /\ SpawnSucceeded(reply.v)
    /\ \E x \in microVMs :
         /\ x # reply.v /\ vm[x].started /\ vm[x].proxy /\ vm[x].console
         /\ vm[x].SocketPath \in sockFiles
         /\ vm[x].fcProcess > 0 /\ proc[vm[x].fcProcess] = "alive"

\* the operations that only report: GET /agent/microvms/<id>,
\* GET /agent/microvms and GET /agent/status
Queries == {"get", "list", "lstatus"}

\* this step is taken by the handler of a status query
QueryStep ==
    \/ reply'.op \in Queries
    \/ \E t \in Tasks : /\ task'[t] # task[t]
                        /\ (task[t].op \in Queries \/ task'[t].op \in Queries)

\* C28: a step of a status query spawns no subprocess, allocates no record
\* (the legacy record included) and changes no record, no socket file and
\* not the registry.
QueriesReadOnly ==
    [][QueryStep => UNCHANGED <<vm, nextObj, legacyVM, microVMs, nextPid, proc,
                                procVM, waiter, sockFiles, idCounter>>]_vars

\* GET /agent/status was answered "not running" for a legacy record that
\* had been started and stopped, and the record is still not running
QueriesReadOnlyWitness ==
    /\ reply.op = "lstatus" /\ reply.status = 200
    /\ reply.v = legacyVM /\ legacyVM # NoVM
    /\ ~reply.out[1].running /\ ~vm[legacyVM].started
    /\ SpawnSucceeded(legacyVM)

\* task t is inside stopFirecrackerForVM
InStop(tk) == tk.pc \in {"stop1", "stop2"}

\* C30: when stop returns for a record that was started when stop took its
\* lock, the record has started = false, no process handle, no console
\* handles, no proxy handle, and its socket file is removed.
StopCleansUp ==
    [][\A t \in Tasks :
         (/\ InStop(task[t]) /\ ~InStop(task'[t])
          /\ (task[t].pc = "stop2" \/ vm[task[t].v].started))
         => LET o == task[t].v IN
            /\ ~vm'[o].started
            /\ vm'[o].fcProcess = NoCmd
            /\ ~vm'[o].console
            /\ ~vm'[o].proxy
            /\ vm'[o].SocketPath \notin sockFiles']_vars

\* task t returns from stopFirecrackerForVM in this step
StopReturns(t) == InStop(task[t]) /\ ~InStop(task'[t])

\* C31: stop does not fail because the subprocess is already gone: a delete
\* without force of a record whose subprocess has exited is not answered 500.
StopToleratesDeadProcess ==
    [][\A t \in Tasks :
         (/\ StopReturns(t)
          /\ task[t].op = "delete" /\ ~task[t].force
          /\ SubprocessDead(task[t].v))
         => task'[t].pc = "d_remove"]_vars

\* C32: stop on a record whose started flag is false changes no record,
\* no socket file and no subprocess, and returns success to its caller.
StopNotStartedIsNoOp ==
    [][\A t \in Tasks :
         (task[t].pc = "stop1" /\ task'[t] # task[t]
          /\ ~vm[task[t].v].started)
         => /\ UNCHANGED <<vm, sockFiles, proc, waiter>>
            /\ Step(t, StopReturn(task[t], FALSE))]_vars

\* a delete is past its stop: the record was not started, it still has the
\* handle of its exited subprocess and its stale socket file
StopNotStartedWitness ==
    \E t \in Tasks :
        /\ task[t].op = "delete" /\ task[t].pc = "d_remove" /\ ~task[t].force
        /\ ~vm[task[t].v].started
        /\ SubprocessDead(task[t].v)
        /\ vm[task[t].v].SocketPath \in sockFiles

\* goroutine g of session s waits in done <- struct{}{} after the handler,
\* the only receiver, has returned
BlockedOnDone(s, g) == Sending(s, g) /\ sess[s].conn = "closed" /\ ~exited

\* C33: no copy loop of a console session is left in its completion signal
\* with nobody to receive it: the loop that finishes second terminates too.
CopyLoopsTerminate ==
    \A s \in Sessions : \A g \in Loops : ~BlockedOnDone(s, g)

\* the record locks task t holds
HeldBy(t) == {o \in Objs : mu[o] = t}

\* the next step of task t takes the registry lock
WantsRegistry(t) == task[t].pc \in {"c_check", "c_insert", "d_remove", "p_pick"}

\* the holder of a record lock is inside start or stop and can take its
\* next step without any other lock
RecordHolderRuns(o) == mu[o] # 0 => ENABLED (Start2(mu[o]) \/ Stop2(mu[o]))

\* a listing holds the registry read lock and can go on, or waits for a
\* record lock
ReaderRuns(t) ==
    \/ ENABLED (ListVisit(t) \/ ListRespond(t))
    \/ \E o \in task[t].todo : mu[o] # 0

\* stopAllMicroVMs holds the registry write lock and can go on, or waits
\* for a record lock
WriterRuns ==
    \/ ENABLED ((\E o \in Objs : StopAllVisit(o)) \/ StopAllEnd)
    \/ \E o \in shutTodo : mu[o] # 0

\* C34: while the agent runs, no task holds two record locks, no task that
\* holds a record lock asks for the registry lock, and every wait for a lock
\* ends at a holder that can run: a record lock is held only inside start or
\* stop, whose next step needs no lock, and a holder of the registry lock
\* waits for record locks only.
LockingDeadlockFree ==
    ~exited =>
        /\ \A t \in Tasks : Cardinality(HeldBy(t)) <= 1
        /\ \A t \in Tasks : WantsRegistry(t) => HeldBy(t) = {}
        /\ \A o \in Objs : RecordHolderRuns(o)
        /\ \A t \in vmMuR : ReaderRuns(t)
        /\ vmMuW # 0 => (vmMuW = ShutdownHolder /\ WriterRuns)

\* a chain of waits: stopAllMicroVMs waits for the registry lock that a
\* listing holds, the listing waits for a record lock, and its holder is a
\* delete inside stop, which will ask for the registry lock next
LockingDeadlockFreeWitness ==
    /\ ~exited
    /\ shut = "stopall"
    /\ \E t \in vmMuR : \E o \in task[t].todo :
         /\ mu[o] # 0
         /\ ~ENABLED ListVisit(t)
         /\ task[mu[o]].op = "delete" /\ task[mu[o]].pc = "stop2"

\* the exit monitor of subprocess p writes its record in this step
MonitorWrites(p) == waiter[p] = "exited" /\ waiter'[p] = "done"

\* C35: the exit monitor of an earlier subprocess of a record does not set
\* started to false or clear the proxy handle while a later subprocess of
\* that record is alive.
MonitorOwnIncarnation ==
    [][\A p \in Pids :
         LET o == procVM[p] IN
         (/\ MonitorWrites(p)
          /\ vm[o].fcProcess > 0 /\ vm[o].fcProcess # p
          /\ proc[vm[o].fcProcess] = "alive")
         => (vm'[o].started = vm[o].started /\ vm'[o].proxy = vm[o].proxy)]_vars

\* the subprocesses the agent launched on a socket path that are alive
LiveOn(path) ==
    {p \in Pids : proc[p] = "alive" /\ vm[procVM[p]].SocketPath = path}

\* C36: every socket path has at most one live Firecracker subprocess that
\* the agent launched.
OneProcessPerSocket ==
    \A o \in Objs : vm[o].alloc => Cardinality(LiveOn(vm[o].SocketPath)) <= 1

\* the legacy records allocated so far
LegacyRecords == {o \in Objs : vm[o].alloc /\ vm[o].ID = LegacyID}

\* C38: the legacy record is allocated at most once, every legacy request
\* in flight works on that record, and at most one subprocess was ever
\* launched per start of it: no two subprocesses of legacy records are alive.
LegacyAllocatedOnce ==
    /\ Cardinality(LegacyRecords) <= 1
    /\ \A t \in Tasks :
         (task[t].op \in {"lstart", "lstop", "proxy"} /\ task[t].v # NoVM
          /\ task[t].v \notin microVMs)
         => task[t].v = legacyVM
    /\ Cardinality({p \in Pids : proc[p] = "alive"
                                 /\ procVM[p] \in LegacyRecords}) <= 1

\* the records built for a create request without a name
Unnamed == {o \in Objs : vm[o].alloc /\ vm[o].ID # LegacyID
                         /\ reqOf[o].Name = EmptyStr}

\* C37: the name of a record created without a name is microvm-<c> for the
\* counter value c of its own identifier vm-<seconds>-<c>, so two such
\* records never have the same name.
AutoNameFromOwnID ==
    /\ \A o \in Unnamed :
         \E c \in 1..MaxCreates : \E s \in BaseSecs..(BaseSecs + MaxTicks) :
            vm[o].ID = FormatID(s, c) /\ vm[o].Name = AutoName(c)
    /\ \A o, q \in Unnamed : o # q => vm[o].Name # vm[q].Name

\* C39: once stopAllMicroVMs has returned after a shutdown signal, no record
\* is started, no subprocess the agent launched is alive, and from then on
\* no record becomes started and none is inserted into the registry.
NothingSurvivesShutdown ==
    /\ [](shut = "done" =>
            /\ \A o \in Objs : ~vm[o].started
            /\ \A p \in Pids : proc[p] # "alive")
    /\ [][shut = "done" =>
            /\ microVMs' \subseteq microVMs
            /\ \A o \in Objs : vm'[o].started => vm[o].started]_vars

====
